---- MODULE Spec2Model ----
(***************************************************************************)
(* Document content extraction (PDF, DOCX, PPTX) and its two sinks, the    *)
(* filesystem tree (Storage) and the relational store (StorageSQL).        *)
(*                                                                         *)
(* Text is a sequence of characters.  Links, metadata keys and values are  *)
(* atoms.  A file's content is the sequence of the characters and atoms    *)
(* written to it.                                                          *)
(***************************************************************************)
EXTENDS Integers, Sequences, FiniteSets, TLC

VARIABLES
    loader,     \* the file loader object last constructed (NoLoader before)
    extractor,  \* the DataExtractor last constructed, or NoExtractor
    last,       \* what the last operation did: its name, result and exception
    fsSink,     \* the Storage object, or NoSink
    sqlSink,    \* the StorageSQL object, or NoSink
    fs,         \* the output tree: directories and files
    db,         \* the database: connection state, committed and pending rows
    results,    \* per content kind, the result of the last extract_* call
    ops         \* number of operations performed

vars == <<loader, extractor, last, fsSink, sqlSink, fs, db, results, ops>>

\* ------------------------------------------------------------------ bounds

\* operations performed in one behaviour
MaxOps == 4

\* ------------------------------------------------------------ python values

NoneVal == "<None>"
NoLoader == [cls |-> "none"]
NoExtractor == [file_loader |-> NoLoader]
NoSink == [extractor |-> NoExtractor, made |-> FALSE, conn |-> "none"]

Whitespace == {" ", "\n"}

\* str.strip(): drop the leading and the trailing whitespace
RECURSIVE lstrip(_)
lstrip(s) ==
    IF s = <<>> THEN <<>>
    ELSE IF Head(s) \in Whitespace THEN lstrip(Tail(s)) ELSE s

RECURSIVE rstrip(_)
rstrip(s) ==
    IF s = <<>> THEN <<>>
    ELSE IF s[Len(s)] \in Whitespace THEN rstrip(SubSeq(s, 1, Len(s) - 1)) ELSE s

strip(s) == rstrip(lstrip(s))

\* sep.join(parts), parts a sequence of character sequences
RECURSIVE join(_, _)
join(sep, parts) ==
    IF parts = <<>> THEN <<>>
    ELSE IF Len(parts) = 1 THEN parts[1]
    ELSE parts[1] \o sep \o join(sep, Tail(parts))

\* concatenation of a sequence of sequences
RECURSIVE Flatten(_)
Flatten(ss) == IF ss = <<>> THEN <<>> ELSE Head(ss) \o Flatten(Tail(ss))

\* a result of a call: the value returned, or the exception raised
Ok(v) == [exc |-> "none", val |-> v]

\* python values returned by the extract_* operations
PyStr(s) == [type |-> "str", v |-> s]
PyList(s) == [type |-> "list", v |-> s]
PyDict(s) == [type |-> "dict", v |-> s]
PyNone == [type |-> "NoneType", v |-> <<>>]

Raise(e) == [exc |-> e, val |-> PyNone]

\* [Op(x) for x in s]
Map(Op(_), s) == [i \in DOMAIN s |-> Op(s[i])]

\* ------------------------------------------------------- document contents

E == <<>>
A == <<"a">>
B == <<"b", " ">>
NoneCell == <<NoneVal>>

U1 == "http://u1"
U2 == "http://u2/image.png"

\* an embedded image: the python value holding it, whether PIL can decode
\* its bytes, and the format PIL infers
ImgPng == [py |-> "bytes", decodable |-> TRUE, format |-> "PNG", id |-> 1]
ImgBad == [py |-> "bytes", decodable |-> FALSE, format |-> "", id |-> 2]
ImgDictJpeg == [py |-> "dict", decodable |-> TRUE, format |-> "JPEG", id |-> 3]
ImgDictRaw == [py |-> "dict", decodable |-> FALSE, format |-> "", id |-> 4]

\* tables: rows of cells; pdfplumber yields None for a cell without text
T1 == << <<A, B>>, <<A, E>> >>
T2 == << <<E>> >>
TNone == << <<A, NoneCell>> >>

OcrOk(t) == [ok |-> TRUE, text |-> t]
OcrFail == [ok |-> FALSE, text |-> <<>>]

Page(an, im, tb, oc) == [annots |-> an, images |-> im, tables |-> tb, ocr |-> oc]
PgBlank == Page(<<>>, <<>>, <<>>, OcrOk(<<>>))
PgScan == Page(<<>>, <<>>, <<>>, OcrOk(<<"x">>))
PgScan2 == Page(<<>>, <<>>, <<>>, OcrOk(<<"y", "\n">>))
PgBroken == Page(<<>>, <<>>, <<>>, OcrFail)
PgRich == Page(<<[uri |-> U1], [uri |-> ""], [uri |-> U2]>>,
               <<ImgDictJpeg, ImgDictRaw>>, <<TNone, T1>>, OcrOk(<<"z">>))

PdfPageLists ==
    { <<PgBlank>>, <<PgScan>>, <<PgScan, PgBroken>>, <<PgBroken, PgScan2>>,
      <<PgScan, PgScan2>>, <<PgBroken, PgBroken>>, <<PgRich>>, <<PgRich, PgScan>> }

PdfInfo == << <<"Title", "T">>, <<"Producer", "p">> >>

PdfDoc(t, pg) ==
    [fmt |-> "pdf", text |-> t, pages |-> pg,
     metadata |-> IF PgRich \in {pg[i] : i \in DOMAIN pg} THEN PdfInfo ELSE <<>>]

PdfDocs ==
    {PdfDoc(<<>>, pg) : pg \in PdfPageLists}
    \cup {PdfDoc(<<" ", "\n">>, pg) : pg \in {<<PgScan, PgBroken>>, <<PgBroken, PgBroken>>}}
    \cup {PdfDoc(<<" ", "a", "b", "\n">>, pg) : pg \in {<<PgBlank>>, <<PgScan>>, <<PgRich>>}}

\* a relationship of the document part
RelLink(u) == [reltype |-> "hyperlink", external |-> TRUE, target_ref |-> u,
               refHasImage |-> (u = U2), blob |-> ImgBad]
RelImage(im) == [reltype |-> "image", external |-> FALSE,
                 target_ref |-> "media/image.png", refHasImage |-> TRUE, blob |-> im]
RelStyles == [reltype |-> "styles", external |-> FALSE, target_ref |-> "styles.xml",
              refHasImage |-> FALSE, blob |-> ImgBad]

CoreEmpty == [title |-> "", author |-> "", subject |-> "", keywords |-> "",
              created |-> NoneVal, modified |-> NoneVal]
CoreFull == [title |-> "T", author |-> "A", subject |-> "", keywords |-> "k",
             created |-> "datetime(2024,1,1)", modified |-> NoneVal]

DocxParagraphs == {<<>>, <<A>>, <<A, E, B>>}
DocxRels ==
    { <<RelStyles>>, <<RelStyles, RelLink(U1)>>, <<RelLink(U2)>>,
      <<RelImage(ImgPng), RelLink(U1), RelImage(ImgBad)>> }

DocxDoc(p, r, t) ==
    [fmt |-> "docx", paragraphs |-> p, rels |-> r, tables |-> t,
     core_properties |-> IF t = <<>> THEN CoreEmpty ELSE CoreFull]

DocxDocs ==
    {DocxDoc(p, <<RelStyles>>, <<>>) : p \in DocxParagraphs}
    \cup {DocxDoc(<<A>>, r, <<>>) : r \in DocxRels}
    \cup {DocxDoc(<<A, E, B>>, r, <<T1, T2>>) :
            r \in {<<RelStyles>>, <<RelImage(ImgPng), RelLink(U1), RelImage(ImgBad)>>}}

\* a text run of a paragraph of a shape's text frame
Run(a) == [text |-> A, address |-> a]

\* a shape of a slide: hasText is hasattr(shape, "text")
Shape(ht, tx, tf, pars, st, im, tb, t) ==
    [hasText |-> ht, text |-> tx, has_text_frame |-> tf, paragraphs |-> pars,
     shape_type |-> st, image |-> im, has_table |-> tb, table |-> t]

ShTitle == Shape(TRUE, A, TRUE, << <<Run(NoneVal)>> >>, 14, ImgBad, FALSE, <<>>)
ShLink == Shape(TRUE, B, TRUE, << <<Run(NoneVal), Run(U1)>> >>, 17, ImgBad, FALSE, <<>>)
ShEmptyText == Shape(TRUE, E, TRUE, << <<>> >>, 17, ImgBad, FALSE, <<>>)
ShPic == Shape(FALSE, E, FALSE, <<>>, 13, ImgPng, FALSE, <<>>)
ShPicBad == Shape(FALSE, E, FALSE, <<>>, 13, ImgBad, FALSE, <<>>)
ShTable == Shape(FALSE, E, FALSE, <<>>, 19, ImgBad, TRUE, T1)

PptSlideLists ==
    { <<>>, << <<ShTitle>> >>, << <<ShTitle>>, <<ShLink>> >>,
      << <<ShPic, ShTitle, ShPicBad>> >>, << <<ShEmptyText, ShTable>>, <<>> >>,
      << <<ShTitle, ShPic, ShEmptyText>>, <<ShLink, ShTable, ShTitle>> >> }

PptDoc(sl) ==
    [fmt |-> "pptx", slides |-> sl,
     core_properties |-> IF Len(sl) > 1 THEN CoreFull ELSE CoreEmpty]

PptDocs == {PptDoc(sl) : sl \in PptSlideLists}

NoDoc == [fmt |-> "none"]
Corrupt == [fmt |-> "corrupt"]

DocsOf(ext) ==
    IF ext = "pdf" THEN PdfDocs
    ELSE IF ext = "docx" THEN DocxDocs
    ELSE IF ext = "pptx" THEN PptDocs
    ELSE {}

\* ------------------------------------------------------------------- files

\* a path: the extension its name ends with, whether it names an existing
\* file, and what the file holds
File(ext, exists, doc) == [ext |-> ext, exists |-> exists, doc |-> doc]

Exts == {"pdf", "docx", "pptx"}

GoodFiles(ext) == {File(ext, TRUE, d) : d \in DocsOf(ext)}

\* paths a loader of extension ext must refuse, and a damaged file it accepts
BadFiles(ext) ==
    { File(ext, FALSE, NoDoc), File(ext, TRUE, Corrupt), File("txt", FALSE, NoDoc),
      File("txt", TRUE, [fmt |-> "text"]),
      IF ext = "pdf" THEN File("docx", TRUE, DocxDoc(<<A>>, <<RelStyles>>, <<>>))
      ELSE File("pdf", TRUE, PdfDoc(<<>>, <<PgScan>>)) }

ExtOf(cls) ==
    IF cls = "PDFLoader" THEN "pdf"
    ELSE IF cls = "DOCXLoader" THEN "docx"
    ELSE IF cls = "PPTLoader" THEN "pptx"
    ELSE "none"

LoaderClasses == {"PDFLoader", "DOCXLoader", "PPTLoader"}

Loader(cls, f) == [cls |-> cls, file_path |-> f]

\* a loader object that is none of the three classes
OtherLoader == Loader("OtherLoader", File("txt", TRUE, [fmt |-> "text"]))

Loaders ==
    UNION {{Loader(c, f) : f \in GoodFiles(ExtOf(c)) \cup BadFiles(ExtOf(c))} :
                c \in LoaderClasses}
    \cup {OtherLoader}

\* ----------------------------------------------------------- file_loader.py

\* validate_file without the os.path.isfile test
validate_file_ExtensionOnly(l) == l.file_path.ext = ExtOf(l.cls)

\* PDFLoader.validate_file, DOCXLoader.validate_file, PPTLoader.validate_file
validate_file(l) == l.file_path.ext = ExtOf(l.cls) /\ l.file_path.exists

\* Document(path), Presentation(path): the underlying parser
Parse(f) == IF f.exists /\ f.doc.fmt = f.ext THEN Ok(f.doc) ELSE Raise("ParseError")

\* load_file of the loader l.  parser: whether the underlying parser ran.
load_file(l) ==
    IF l.cls = "PDFLoader" THEN
        IF ~validate_file(l) THEN [res |-> Raise("ValueError"), parser |-> FALSE]
        ELSE [res |-> Ok([fmt |-> "path"]), parser |-> FALSE]
    ELSE IF l.cls \in {"DOCXLoader", "PPTLoader"} THEN
        IF validate_file(l) THEN [res |-> Parse(l.file_path), parser |-> TRUE]
        ELSE [res |-> Raise("ValueError"), parser |-> FALSE]
    ELSE [res |-> Ok(l.file_path.doc), parser |-> FALSE]

\* -------------------------------------------------------- data_extractor.py

\* DataExtractor.__init__: the extractor built, exc /= "none" when load fails
DataExtractor_init(l) ==
    LET r == load_file(l) IN
    IF r.res.exc = "none"
    THEN [exc |-> "none", parser |-> r.parser,
          obj |-> [file_loader |-> l, content |-> r.res.val]]
    ELSE [exc |-> r.res.exc, parser |-> r.parser, obj |-> NoExtractor]

\* the PDF parsers (pdfminer, pdfplumber) opened on the loader's path
OpenPdf(f) == Parse(File("pdf", f.exists, f.doc))

\* the shapes of all slides, in slide order then shape order
AllShapes(prs) == Flatten(prs.slides)

ShapeText(sh) == sh.text

\* a filter that lets every shape through
HasTextAttr_Any(sh) == TRUE

\* hasattr(shape, "text")
HasTextAttr(sh) == sh.hasText

\* extract_text that returns whatever pdfminer gives, blank or not
extract_text_Unstripped(x) ==
    IF x.file_loader.cls = "PDFLoader" THEN
        LET pdf == OpenPdf(x.file_loader.file_path) IN
        IF pdf.exc /= "none" THEN Raise(pdf.exc) ELSE Ok(PyStr(pdf.val.text))
    ELSE IF x.file_loader.cls = "DOCXLoader" THEN
        Ok(PyStr(join(<<"\n">>, x.content.paragraphs)))
    ELSE IF x.file_loader.cls = "PPTLoader" THEN
        Ok(PyStr(join(<<"\n">>,
                      Map(ShapeText, SelectSeq(AllShapes(x.content), HasTextAttr)))))
    ELSE Ok(PyStr(<<>>))

\* DataExtractor.extract_text
extract_text(x) ==
    IF x.file_loader.cls = "PDFLoader" THEN
        LET pdf == OpenPdf(x.file_loader.file_path) IN
        IF pdf.exc /= "none" THEN Raise(pdf.exc)
        ELSE IF strip(pdf.val.text) /= <<>> THEN Ok(PyStr(pdf.val.text))
        ELSE Ok(PyStr(<<>>))
    ELSE IF x.file_loader.cls = "DOCXLoader" THEN
        Ok(PyStr(join(<<"\n">>, x.content.paragraphs)))
    ELSE IF x.file_loader.cls = "PPTLoader" THEN
        Ok(PyStr(join(<<"\n">>,
                      Map(ShapeText, SelectSeq(AllShapes(x.content), HasTextAttr)))))
    ELSE Ok(PyStr(<<>>))

AnnotUri(an) == an.uri
HasUri(an) == an.uri /= ""
PageLinks(pg) == Map(AnnotUri, SelectSeq(pg.annots, HasUri))

\* DataExtractor.extract_pdf_links
extract_pdf_links(file_path) ==
    LET pdf == OpenPdf(file_path) IN
    IF pdf.exc /= "none" THEN Raise(pdf.exc)
    ELSE Ok(PyList(Flatten(Map(PageLinks, pdf.val.pages))))

IsHyperlink(rel) == rel.reltype = "hyperlink"
RelTarget(rel) == rel.target_ref

\* DataExtractor.extract_docx_links
extract_docx_links(x) ==
    Ok(PyList(Map(RelTarget, SelectSeq(x.content.rels, IsHyperlink))))

RunAddress(run) == run.address
HasAddress(run) == run.address /= NoneVal /\ run.address /= ""
ShapeLinks(sh) ==
    IF sh.has_text_frame
    THEN Map(RunAddress, SelectSeq(Flatten(sh.paragraphs), HasAddress))
    ELSE <<>>

\* DataExtractor.extract_ppt_links
extract_ppt_links(x) ==
    Ok(PyList(Flatten(Map(ShapeLinks, AllShapes(x.content)))))

\* DataExtractor.extract_links
extract_links(x) ==
    IF x.file_loader.cls = "PDFLoader" THEN extract_pdf_links(x.file_loader.file_path)
    ELSE IF x.file_loader.cls = "DOCXLoader" THEN extract_docx_links(x)
    ELSE IF x.file_loader.cls = "PPTLoader" THEN extract_ppt_links(x)
    ELSE Ok(PyList(<<>>))

PageImages(pg) == pg.images

\* DataExtractor.extract_pdf_images
extract_pdf_images(file_path) ==
    LET pdf == OpenPdf(file_path) IN
    IF pdf.exc /= "none" THEN Raise(pdf.exc)
    ELSE Ok(PyList(Flatten(Map(PageImages, pdf.val.pages))))

\* "image" in rel.target_ref
RefNamesImage(rel) == rel.refHasImage
RelBlob(rel) == rel.blob
IsExternal(rel) == rel.external

\* DataExtractor.extract_docx_images; rel.target_part raises ValueError for
\* a relationship whose target is external
extract_docx_images(x) ==
    LET picked == SelectSeq(x.content.rels, RefNamesImage) IN
    IF SelectSeq(picked, IsExternal) /= <<>> THEN Raise("ValueError")
    ELSE Ok(PyList(Map(RelBlob, picked)))

\* shape type 13, Picture
PICTURE == 13

IsPicture(sh) == sh.shape_type = PICTURE
ShapeBlob(sh) == sh.image

\* DataExtractor.extract_ppt_images
extract_ppt_images(x) ==
    Ok(PyList(Map(ShapeBlob, SelectSeq(AllShapes(x.content), IsPicture))))

\* DataExtractor.extract_images
extract_images(x) ==
    IF x.file_loader.cls = "PDFLoader" THEN extract_pdf_images(x.file_loader.file_path)
    ELSE IF x.file_loader.cls = "DOCXLoader" THEN extract_docx_images(x)
    ELSE IF x.file_loader.cls = "PPTLoader" THEN extract_ppt_images(x)
    ELSE Ok(PyList(<<>>))

PageTables(pg) == pg.tables

\* DataExtractor.extract_pdf_tables
extract_pdf_tables(file_path) ==
    LET pdf == OpenPdf(file_path) IN
    IF pdf.exc /= "none" THEN Raise(pdf.exc)
    ELSE Ok(PyList(Flatten(Map(PageTables, pdf.val.pages))))

\* DataExtractor.extract_docx_tables
extract_docx_tables(x) == Ok(PyList(x.content.tables))

HasTable(sh) == sh.has_table
ShapeTable(sh) == sh.table

\* DataExtractor.extract_ppt_tables
extract_ppt_tables(x) ==
    Ok(PyList(Map(ShapeTable, SelectSeq(AllShapes(x.content), HasTable))))

\* DataExtractor.extract_tables
extract_tables(x) ==
    IF x.file_loader.cls = "PDFLoader" THEN extract_pdf_tables(x.file_loader.file_path)
    ELSE IF x.file_loader.cls = "DOCXLoader" THEN extract_docx_tables(x)
    ELSE IF x.file_loader.cls = "PPTLoader" THEN extract_ppt_tables(x)
    ELSE Ok(PyList(<<>>))

\* DataExtractor.extract_pdf_metadata
extract_pdf_metadata(file_path) ==
    LET pdf == OpenPdf(file_path) IN
    IF pdf.exc /= "none" THEN Raise(pdf.exc)
    ELSE Ok(PyDict(pdf.val.metadata))

\* DataExtractor.extract_document_metadata
extract_document_metadata(x) ==
    LET core_properties == x.content.core_properties IN
    Ok(PyDict(<< <<"title", core_properties.title>>,
                 <<"author", core_properties.author>>,
                 <<"subject", core_properties.subject>>,
                 <<"keywords", core_properties.keywords>>,
                 <<"created", core_properties.created>>,
                 <<"modified", core_properties.modified>> >>))

\* extract_metadata without the final return {}
extract_metadata_NoDefault(x) ==
    IF x.file_loader.cls = "PDFLoader" THEN extract_pdf_metadata(x.file_loader.file_path)
    ELSE IF x.file_loader.cls \in {"DOCXLoader", "PPTLoader"}
    THEN extract_document_metadata(x)
    ELSE Ok(PyNone)

\* DataExtractor.extract_metadata
extract_metadata(x) ==
    IF x.file_loader.cls = "PDFLoader" THEN extract_pdf_metadata(x.file_loader.file_path)
    ELSE IF x.file_loader.cls \in {"DOCXLoader", "PPTLoader"}
    THEN extract_document_metadata(x)
    ELSE Ok(PyDict(<<>>))

Kinds == {"text", "links", "images", "tables", "metadata"}

\* the extract_* operation of a content kind
Extract(kind, x) ==
    CASE kind = "text" -> extract_text(x)
      [] kind = "links" -> extract_links(x)
      [] kind = "images" -> extract_images(x)
      [] kind = "tables" -> extract_tables(x)
      [] kind = "metadata" -> extract_metadata(x)

\* --------------------------------------------------------------- storage.py

\* Storage._get_file_type, StorageSQL._get_file_type
get_file_type(x) ==
    IF x.file_loader.cls = "PDFLoader" THEN "pdf"
    ELSE IF x.file_loader.cls = "DOCXLoader" THEN "docx"
    ELSE IF x.file_loader.cls = "PPTLoader" THEN "ppt"
    ELSE "unknown"

\* str(n) of an item number
NumStr(n) == <<"0", "1", "2", "3", "4", "5", "6", "7", "8", "9">>[n + 1]

\* str(v) of an atom
Str(v) == IF v = NoneVal THEN "None" ELSE v

\* str.lower() of an image format name
Lower(f) == IF f = "PNG" THEN "png" ELSE IF f = "JPEG" THEN "jpeg" ELSE f

\* os.path.join(base_path, dir, name): a path below the base directory
Path(dir, name) == [dir |-> dir, name |-> name]

EmptyFs == [dirs |-> {}, files |-> <<>>]

\* the file opened in mode 'a': content is added to what the file holds
Put_Append(files, path, content) ==
    [q \in DOMAIN files \cup {path} |->
        IF q = path THEN (IF q \in DOMAIN files THEN files[q] ELSE <<>>) \o content
        ELSE files[q]]

\* the file at path now holds content
Put(files, path, content) ==
    [q \in DOMAIN files \cup {path} |-> IF q = path THEN content ELSE files[q]]

\* open(path, 'w') succeeds: the directory exists and the system call does
\* not fail
CanOpen(tree, path, fault) == path.dir \in tree.dirs /\ ~fault

\* a constructor that makes no directory
ensure_directories_exist_Lazy(tree) == tree

\* Storage.ensure_directories_exist
ensure_directories_exist(tree) ==
    [tree EXCEPT !.dirs = @ \cup {"images", "tables", "text", "links"}]

\* a constructor that catches the error of os.makedirs
Storage_init_Swallow(x, tree, fault) ==
    [exc |-> "none", obj |-> [extractor |-> x, made |-> TRUE, conn |-> "none"],
     fs |-> IF fault THEN tree ELSE ensure_directories_exist(tree)]

\* Storage.__init__; fault: os.makedirs fails
Storage_init(x, tree, fault) ==
    IF fault THEN [exc |-> "PermissionError", obj |-> NoSink, fs |-> tree]
    ELSE [exc |-> "none", obj |-> [extractor |-> x, made |-> TRUE, conn |-> "none"],
          fs |-> ensure_directories_exist(tree)]

\* save_text that writes no file for an empty text
Storage_save_text_SkipEmpty(self, tree, faults) ==
    LET r == extract_text(self.extractor)
        text == strip(r.val.v)
        text_file == Path("text", <<get_file_type(self.extractor), "_", "text", ".", "txt">>)
    IN  IF r.exc /= "none" THEN [exc |-> r.exc, fs |-> tree]
        ELSE IF text /= <<>> /\ CanOpen(tree, text_file, 1 \in faults)
        THEN [exc |-> "none", fs |-> [tree EXCEPT !.files = Put(@, text_file, text)]]
        ELSE [exc |-> "none", fs |-> tree]

\* Storage.save_text; faults: the open() calls that fail
Storage_save_text(self, tree, faults) ==
    LET r == extract_text(self.extractor)
        text == strip(r.val.v)
        file_type == get_file_type(self.extractor)
        text_file == Path("text", <<file_type, "_", "text", ".", "txt">>)
    IN  IF r.exc /= "none" THEN [exc |-> r.exc, fs |-> tree]
        ELSE IF CanOpen(tree, text_file, 1 \in faults)
        THEN [exc |-> "none", fs |-> [tree EXCEPT !.files = Put(@, text_file, text)]]
        ELSE [exc |-> "none", fs |-> tree]

\* f"{format_func(item)}\n" for each item
Line(item) == <<Str(item), "\n">>

\* _save_to_file naming the file <folder>_<format>.txt
save_to_file_Swapped(self, tree, folder_name, data, faults) ==
    LET file_path ==
            Path(folder_name,
                 <<folder_name, "_", get_file_type(self.extractor), ".", "txt">>)
    IN  IF data.exc /= "none" THEN [exc |-> data.exc, fs |-> tree]
        ELSE IF CanOpen(tree, file_path, 1 \in faults)
        THEN [exc |-> "none",
              fs |-> [tree EXCEPT !.files = Put(@, file_path, Flatten(Map(Line, data.val.v)))]]
        ELSE [exc |-> "none", fs |-> tree]

\* Storage._save_to_file
save_to_file(self, tree, folder_name, data, faults) ==
    LET file_path ==
            Path(folder_name,
                 <<get_file_type(self.extractor), "_", folder_name, ".", "txt">>)
    IN  IF data.exc /= "none" THEN [exc |-> data.exc, fs |-> tree]
        ELSE IF CanOpen(tree, file_path, 1 \in faults)
        THEN [exc |-> "none",
              fs |-> [tree EXCEPT !.files = Put(@, file_path, Flatten(Map(Line, data.val.v)))]]
        ELSE [exc |-> "none", fs |-> tree]

\* Storage.save_links
Storage_save_links(self, tree, faults) ==
    save_to_file(self, tree, "links", extract_links(self.extractor), faults)

\* Storage._prepare_image_data, StorageSQL._prepare_image_data: the byte
\* stream handed to PIL
prepare_image_data(image_data) ==
    IF image_data.py \in {"dict", "bytes"} THEN [image_data EXCEPT !.py = "BytesIO"]
    ELSE image_data

\* Image.open succeeds on the stream
Decodes(stream) == stream.py = "BytesIO" /\ stream.decodable

\* the bytes PIL writes for an image it has opened
Encoded(image) == <<"<image>", image.format, NumStr(image.id)>>

\* save_images that numbers a file by the count of images saved before it
RECURSIVE SaveImagesFrom_Counted(_, _, _, _, _)
SaveImagesFrom_Counted(tree, images, idx, file_type_prefix, faults) ==
    IF idx > Len(images) THEN tree
    ELSE
        LET image == prepare_image_data(images[idx])
            count == Cardinality({i \in 1..(idx - 1) :
                                    Decodes(prepare_image_data(images[i])) /\ i \notin faults})
            image_path ==
                Path("images", <<file_type_prefix, "_", "image", "_", NumStr(count + 1),
                                 ".", Lower(image.format)>>)
            saved ==
                IF Decodes(image) /\ CanOpen(tree, image_path, idx \in faults)
                THEN [tree EXCEPT !.files = Put(@, image_path, Encoded(image))]
                ELSE tree
        IN  SaveImagesFrom_Counted(saved, images, idx + 1, file_type_prefix, faults)

\* save_images without the per-image try: the first image that fails ends
\* the loop
RECURSIVE SaveImagesFrom_Unguarded(_, _, _, _, _)
SaveImagesFrom_Unguarded(tree, images, idx, file_type_prefix, faults) ==
    IF idx > Len(images) THEN tree
    ELSE
        LET image == prepare_image_data(images[idx])
            image_path ==
                Path("images", <<file_type_prefix, "_", "image", "_", NumStr(idx),
                                 ".", Lower(image.format)>>)
        IN  IF Decodes(image) /\ CanOpen(tree, image_path, idx \in faults)
            THEN SaveImagesFrom_Unguarded(
                     [tree EXCEPT !.files = Put(@, image_path, Encoded(image))],
                     images, idx + 1, file_type_prefix, faults)
            ELSE tree

\* Storage.save_images: the images are saved one after the other
RECURSIVE SaveImagesFrom(_, _, _, _, _)
SaveImagesFrom(tree, images, idx, file_type_prefix, faults) ==
    IF idx > Len(images) THEN tree
    ELSE
        LET image == prepare_image_data(images[idx])
            image_path ==
                Path("images", <<file_type_prefix, "_", "image", "_", NumStr(idx),
                                 ".", Lower(image.format)>>)
            saved ==
                IF Decodes(image) /\ CanOpen(tree, image_path, idx \in faults)
                THEN [tree EXCEPT !.files = Put(@, image_path, Encoded(image))]
                ELSE tree
        IN  SaveImagesFrom(saved, images, idx + 1, file_type_prefix, faults)

Storage_save_images(self, tree, faults) ==
    LET r == extract_images(self.extractor) IN
    IF r.exc /= "none" THEN [exc |-> r.exc, fs |-> tree]
    ELSE [exc |-> "none",
          fs |-> SaveImagesFrom(tree, r.val.v, 1, get_file_type(self.extractor), faults)]

\* csv.writer: a field is quoted when it holds the delimiter, the quote
\* character or a line break; None is written as the empty field
NeedsQuote(c) == \E i \in DOMAIN c : c[i] \in {",", "\"", "\n", "\r"}

RECURSIVE DoubleQuotes(_)
DoubleQuotes(c) ==
    IF c = <<>> THEN <<>>
    ELSE (IF Head(c) = "\"" THEN <<"\"", "\"">> ELSE <<Head(c)>>) \o DoubleQuotes(Tail(c))

CsvField(c) ==
    IF c = NoneCell THEN <<>>
    ELSE IF NeedsQuote(c) THEN <<"\"">> \o DoubleQuotes(c) \o <<"\"">>
    ELSE c

\* a row of one empty field is written as a pair of quotes
CsvRow(row) ==
    (IF Len(row) = 1 /\ CsvField(row[1]) = <<>> THEN <<"\"", "\"">>
     ELSE join(<<",">>, Map(CsvField, row))) \o <<"\r", "\n">>

\* Storage._write_csv
write_csv(tree, file_path, data, fault) ==
    IF CanOpen(tree, file_path, fault)
    THEN [tree EXCEPT !.files = Put(@, file_path, Flatten(Map(CsvRow, data)))]
    ELSE tree

RECURSIVE SaveTablesFrom(_, _, _, _, _)
SaveTablesFrom(tree, tables, idx, file_type, faults) ==
    IF idx > Len(tables) THEN tree
    ELSE
        LET csv_path ==
                Path("tables", <<"table", "_", file_type, "_", NumStr(idx), ".", "csv">>)
        IN  SaveTablesFrom(write_csv(tree, csv_path, tables[idx], idx \in faults),
                           tables, idx + 1, file_type, faults)

\* Storage.save_tables
Storage_save_tables(self, tree, faults) ==
    LET r == extract_tables(self.extractor) IN
    IF r.exc /= "none" THEN [exc |-> r.exc, fs |-> tree]
    ELSE [exc |-> "none",
          fs |-> SaveTablesFrom(tree, r.val.v, 1, get_file_type(self.extractor), faults)]

\* the line of an entry with a None value left blank
MetaLine_Blank(kv) == <<kv[1], ": ", IF kv[2] = NoneVal THEN "" ELSE kv[2], "\n">>

\* f"{key}: {value}\n"
MetaLine(kv) == <<kv[1], ": ", Str(kv[2]), "\n">>

\* Storage.save_metadata; fault 0: os.makedirs fails, fault 1: open() fails
Storage_save_metadata(self, tree, faults) ==
    LET r == extract_metadata(self.extractor)
        made == [tree EXCEPT !.dirs = @ \cup {"metadata"}]
        metadata_file ==
            Path("metadata", <<get_file_type(self.extractor), "_", "metadata", ".", "txt">>)
    IN  IF r.exc /= "none" THEN [exc |-> r.exc, fs |-> tree]
        ELSE IF 0 \in faults THEN [exc |-> "PermissionError", fs |-> tree]
        ELSE IF CanOpen(made, metadata_file, 1 \in faults)
        THEN [exc |-> "none",
              fs |-> [made EXCEPT !.files = Put(@, metadata_file, Flatten(Map(MetaLine, r.val.v)))]]
        ELSE [exc |-> "none", fs |-> made]

\* the save_* operation of a content kind on the filesystem sink
Storage_save(kind, self, tree, faults) ==
    CASE kind = "text" -> Storage_save_text(self, tree, faults)
      [] kind = "links" -> Storage_save_links(self, tree, faults)
      [] kind = "images" -> Storage_save_images(self, tree, faults)
      [] kind = "tables" -> Storage_save_tables(self, tree, faults)
      [] kind = "metadata" -> Storage_save_metadata(self, tree, faults)

\* the five tables and their columns, as create_tables declares them
Schema ==
    [extracted_text |-> <<"id", "file_type", "content">>,
     extracted_links |-> <<"id", "file_type", "link">>,
     extracted_images |-> <<"id", "file_type", "image">>,
     extracted_tables |-> <<"id", "file_type", "table_data">>,
     extracted_metadata |-> <<"id", "file_type", "key", "value">>]

TableNames == DOMAIN Schema

NoRows == [t \in TableNames |-> <<>>]

\* the database: the tables that exist with their columns, the committed
\* rows, the rows inserted on the open connection and not yet committed, and
\* the texts of the INSERT statements the server has executed
EmptyDb == [schema |-> <<>>, rows |-> NoRows, pending |-> NoRows, executed |-> {}]

\* create_tables that drops the tables before it creates them
create_tables_Recreate(d) == [d EXCEPT !.schema = Schema, !.rows = NoRows]

\* StorageSQL.create_tables: CREATE TABLE IF NOT EXISTS, then commit
create_tables(d) ==
    [d EXCEPT !.schema = [t \in TableNames |-> IF t \in DOMAIN @ THEN @[t] ELSE Schema[t]]]

\* conn.commit()
Commit(d) ==
    [d EXCEPT !.rows = [t \in TableNames |-> @[t] \o d.pending[t]], !.pending = NoRows]

\* the connection goes away: what it has not committed is rolled back
Rollback(d) == [d EXCEPT !.pending = NoRows]

\* StorageSQL.__init__; fault: mysql.connector.connect fails
StorageSQL_init(x, d, fault) ==
    IF fault THEN [exc |-> "DatabaseError", obj |-> NoSink, db |-> Rollback(d)]
    ELSE [exc |-> "none", obj |-> [extractor |-> x, made |-> TRUE, conn |-> "open"],
          db |-> create_tables(Rollback(d))]

\* cursor.execute of one INSERT: the statement text and its bound parameters
\* a %s of the statement text, and a value written into the text itself
Placeholder == [marker |-> "%s"]
Literal(v) == [literal |-> v]

\* the operation string of an INSERT: the table, the columns and what stands
\* in VALUES (...)
InsertText(table, columns, values) == [table |-> table, columns |-> columns, values |-> values]

\* an INSERT whose text is formatted with the values themselves
Statement_Inline(table, columns, params) ==
    [text |-> InsertText(table, columns, [c \in DOMAIN columns |-> Literal(params[c])]),
     table |-> table, columns |-> columns, params |-> params]

\* cursor.execute(operation, params): the text has one %s per column and
\* the values travel in params
Statement(table, columns, params) ==
    [text |-> InsertText(table, columns, [c \in DOMAIN columns |-> Placeholder]),
     table |-> table, columns |-> columns, params |-> params]

\* the row an INSERT adds
RowOf(stmt) == [c \in 1..Len(stmt.columns) |-> <<stmt.columns[c], stmt.params[c]>>]

\* the statements are executed in order until one fails, and the exception
\* of that one propagates; n: statements executed, exc: the exception
RECURSIVE ExecuteFrom(_, _, _, _)
ExecuteFrom(d, stmts, i, faults) ==
    IF i > Len(stmts) THEN [exc |-> "none", db |-> d, n |-> Len(stmts)]
    ELSE IF stmts[i].table \notin DOMAIN d.schema
    THEN [exc |-> "ProgrammingError", db |-> d, n |-> i - 1]
    ELSE IF i \in faults THEN [exc |-> "DatabaseError", db |-> d, n |-> i - 1]
    ELSE ExecuteFrom([d EXCEPT !.pending[stmts[i].table] = Append(@, RowOf(stmts[i])),
                               !.executed = @ \cup {stmts[i].text}],
                     stmts, i + 1, faults)

\* isinstance(item, tuple): a link is a str, a (text, address) pair is not
IsTuple(item) == item \notin STRING

\* item[1] of a pair when links are saved
LinkPart(item, is_link) == IF is_link /\ IsTuple(item) THEN item[2] ELSE item

\* StorageSQL._save_to_db: data is the python value extracted, iterated
\* item by item (a str is iterated character by character)
save_to_db(self, d, table_name, column_name, data, is_link, faults) ==
    LET file_type == get_file_type(self.extractor)
        stmts == [i \in DOMAIN data.val.v |->
                     Statement(table_name, <<"file_type", column_name>>,
                               <<file_type, LinkPart(data.val.v[i], is_link)>>)]
        run == ExecuteFrom(d, stmts, 1, faults)
    IN  IF data.exc /= "none" THEN [exc |-> data.exc, db |-> d, n |-> 0]
        ELSE IF run.exc /= "none" THEN run
        ELSE [run EXCEPT !.db = Commit(@)]

\* StorageSQL.save_text
StorageSQL_save_text(self, d, faults) ==
    save_to_db(self, d, "extracted_text", "content", extract_text(self.extractor),
               FALSE, faults)

\* StorageSQL.save_links
StorageSQL_save_links(self, d, faults) ==
    save_to_db(self, d, "extracted_links", "link", extract_links(self.extractor),
               TRUE, faults)

\* StorageSQL._get_image_bytes
get_image_bytes(image_data) == Encoded(image_data)

\* StorageSQL.save_images: an image whose decoding or whose insert fails is
\* skipped
RECURSIVE InsertImagesFrom(_, _, _, _, _)
InsertImagesFrom(d, images, idx, file_type, faults) ==
    IF idx > Len(images) THEN [exc |-> "none", db |-> d, n |-> 0]
    ELSE
        LET image_data == prepare_image_data(images[idx])
            stmt == Statement("extracted_images", <<"file_type", "image">>,
                              <<file_type, get_image_bytes(image_data)>>)
            one == IF Decodes(image_data)
                   THEN ExecuteFrom(d, <<stmt>>, 1, IF idx \in faults THEN {1} ELSE {})
                   ELSE [exc |-> "UnidentifiedImageError", db |-> d, n |-> 0]
            rest == InsertImagesFrom(one.db, images, idx + 1, file_type, faults)
        IN  [rest EXCEPT !.n = @ + one.n]

StorageSQL_save_images(self, d, faults) ==
    LET r == extract_images(self.extractor)
        run == InsertImagesFrom(d, r.val.v, 1, get_file_type(self.extractor), faults)
    IN  IF r.exc /= "none" THEN [exc |-> r.exc, db |-> d, n |-> 0]
        ELSE [run EXCEPT !.db = Commit(@)]

\* StorageSQL.save_metadata
StorageSQL_save_metadata(self, d, faults) ==
    LET r == extract_metadata(self.extractor)
        file_type == get_file_type(self.extractor)
        stmts == [i \in DOMAIN r.val.v |->
                     Statement("extracted_metadata", <<"file_type", "key", "value">>,
                               <<file_type, r.val.v[i][1], r.val.v[i][2]>>)]
        run == ExecuteFrom(d, stmts, 1, faults)
    IN  IF r.exc /= "none" THEN [exc |-> r.exc, db |-> d, n |-> 0]
        ELSE IF run.exc /= "none" THEN run
        ELSE [run EXCEPT !.db = Commit(@)]

\* str(item) without the None test
CellText_Str(item) == IF item = NoneCell THEN <<"N", "o", "n", "e">> ELSE item

\* str(item) if item is not None else ''
CellText(item) == IF item = NoneCell THEN <<>> ELSE item

\* '\n'.join(','.join(...) for row in table)
TableData(table) == join(<<"\n">>, [r \in DOMAIN table |-> join(<<",">>, Map(CellText, table[r]))])

\* save_tables that records an empty blob when there is no table
StorageSQL_save_tables_Placeholder(self, d, faults) ==
    LET r == extract_tables(self.extractor)
        file_type == get_file_type(self.extractor)
        stmts == IF r.val.v = <<>>
                 THEN <<Statement("extracted_tables", <<"file_type", "table_data">>,
                                  <<file_type, <<>> >>)>>
                 ELSE [i \in DOMAIN r.val.v |->
                          Statement("extracted_tables", <<"file_type", "table_data">>,
                                    <<file_type, TableData(r.val.v[i])>>)]
        run == ExecuteFrom(d, stmts, 1, faults)
    IN  IF r.exc /= "none" THEN [exc |-> r.exc, db |-> d, n |-> 0]
        ELSE IF run.exc /= "none" THEN run
        ELSE [run EXCEPT !.db = Commit(@)]

\* StorageSQL.save_tables
StorageSQL_save_tables(self, d, faults) ==
    LET r == extract_tables(self.extractor)
        file_type == get_file_type(self.extractor)
        stmts == [i \in DOMAIN r.val.v |->
                     Statement("extracted_tables", <<"file_type", "table_data">>,
                               <<file_type, TableData(r.val.v[i])>>)]
        run == ExecuteFrom(d, stmts, 1, faults)
    IN  IF r.exc /= "none" THEN [exc |-> r.exc, db |-> d, n |-> 0]
        ELSE IF run.exc /= "none" THEN run
        ELSE [run EXCEPT !.db = Commit(@)]

\* StorageSQL.close
StorageSQL_close(self, d) == [obj |-> [self EXCEPT !.conn = "closed"], db |-> Rollback(d)]

\* the save_* operation of a content kind on the relational sink; on a
\* closed connection conn.cursor() raises once the content is extracted
StorageSQL_save(kind, self, d, faults) ==
    IF self.conn /= "open" THEN
        [exc |-> IF Extract(kind, self.extractor).exc /= "none"
                 THEN Extract(kind, self.extractor).exc ELSE "OperationalError",
         db |-> d, n |-> 0]
    ELSE
    CASE kind = "text" -> StorageSQL_save_text(self, d, faults)
      [] kind = "links" -> StorageSQL_save_links(self, d, faults)
      [] kind = "images" -> StorageSQL_save_images(self, d, faults)
      [] kind = "tables" -> StorageSQL_save_tables(self, d, faults)
      [] kind = "metadata" -> StorageSQL_save_metadata(self, d, faults)

\* ------------------------------------------------------------- extractor.py

\* PDFLoader.extract_text_with_ocr: the pages are rasterized, then OCR runs
\* page by page; a page whose OCR raises adds nothing
RECURSIVE OcrPagesFrom(_, _)
OcrPagesFrom(pages, i) ==
    IF i > Len(pages) THEN <<>>
    ELSE (IF pages[i].ocr.ok THEN pages[i].ocr.text ELSE <<>>) \o OcrPagesFrom(pages, i + 1)

\* extract_text_with_ocr without the per-page try: the first page whose OCR
\* raises ends the loop
extract_text_with_ocr_Unguarded(l, fault) ==
    LET pdf == OpenPdf(l.file_path) IN
    IF pdf.exc /= "none" \/ fault THEN Raise("PDFPageCountError")
    ELSE IF \E i \in DOMAIN pdf.val.pages : ~pdf.val.pages[i].ocr.ok
    THEN Raise("TesseractError")
    ELSE Ok(OcrPagesFrom(pdf.val.pages, 1))

\* fault: convert_from_path fails
extract_text_with_ocr(l, fault) ==
    LET pdf == OpenPdf(l.file_path) IN
    IF pdf.exc /= "none" \/ fault THEN Raise("PDFPageCountError")
    ELSE Ok(OcrPagesFrom(pdf.val.pages, 1))

\* PDFLoader.load_file of extractor.py
Legacy_PDFLoader_load_file(l, fault) ==
    LET pdf == OpenPdf(l.file_path)
        ocr == extract_text_with_ocr(l, fault)
    IN  IF ~validate_file(l) THEN Raise("ValueError")
        ELSE IF pdf.exc = "none" /\ strip(pdf.val.text) /= <<>> THEN Ok(pdf.val.text)
        ELSE IF ocr.exc /= "none" THEN Raise("ValueError")
        ELSE ocr

\* DOCXLoader.load_file, PPTLoader.load_file of extractor.py
Legacy_load_file(l, fault) ==
    IF l.cls = "PDFLoader" THEN
        LET r == Legacy_PDFLoader_load_file(l, fault) IN
        [res |-> IF r.exc = "none" THEN Ok([fmt |-> "text", text |-> r.val]) ELSE r,
         parser |-> validate_file(l)]
    ELSE IF l.cls \in {"DOCXLoader", "PPTLoader"} THEN
        IF validate_file(l) THEN [res |-> Parse(l.file_path), parser |-> TRUE]
        ELSE [res |-> Raise("ValueError"), parser |-> FALSE]
    ELSE [res |-> Ok(l.file_path.doc), parser |-> FALSE]

\* DataExtractor.__init__ of extractor.py
Legacy_DataExtractor_init(l, fault) ==
    LET r == Legacy_load_file(l, fault) IN
    IF r.res.exc = "none"
    THEN [exc |-> "none", parser |-> r.parser,
          obj |-> [file_loader |-> l, content |-> r.res.val]]
    ELSE [exc |-> r.res.exc, parser |-> r.parser, obj |-> NoExtractor]

\* DataExtractor.extract_text of extractor.py
Legacy_extract_text(x) ==
    IF x.file_loader.cls = "PDFLoader" THEN Ok(PyStr(x.content.text))
    ELSE IF x.file_loader.cls = "DOCXLoader" THEN
        Ok(PyStr(join(<<"\n">>, x.content.paragraphs)))
    ELSE IF x.file_loader.cls = "PPTLoader" THEN
        Ok(PyStr(join(<<"\n">>,
                      Map(ShapeText, SelectSeq(AllShapes(x.content), HasTextAttr)))))
    ELSE Ok(PyStr(<<>>))

\* the (run.text, run.hyperlink.address) pairs of a shape
RunPair(run) == <<run.text, run.address>>
ShapeLinkPairs(sh) ==
    IF sh.has_text_frame
    THEN Map(RunPair, SelectSeq(Flatten(sh.paragraphs), HasAddress))
    ELSE <<>>

\* DataExtractor.extract_links of extractor.py; a PDF goes to
\* PDFLoader.extract_links
Legacy_extract_links(x) ==
    IF x.file_loader.cls = "PDFLoader" THEN extract_pdf_links(x.file_loader.file_path)
    ELSE IF x.file_loader.cls = "DOCXLoader"
    THEN Ok(PyList(Map(RelTarget, SelectSeq(x.content.rels, IsHyperlink))))
    ELSE IF x.file_loader.cls = "PPTLoader"
    THEN Ok(PyList(Flatten(Map(ShapeLinkPairs, AllShapes(x.content)))))
    ELSE Ok(PyList(<<>>))

\* ------------------------------------------------------------- operations

NotCalled == [exc |-> "notcalled", val |-> PyNone]
NoResults == [k \in Kinds |-> NotCalled]

\* the record of an operation: its name, the sink and content kind it is
\* about, the exception it let out, whether the underlying parser ran, the
\* value it returned, the number of INSERTs it executed, the environment
\* faults injected, and whether the operation before it was the same call,
\* completed without exception or fault
Did(op, sink, kind, exc, parser, ret, n, faults, again) ==
    [op |-> op, sink |-> sink, kind |-> kind, exc |-> exc, parser |-> parser,
     ret |-> ret, n |-> n, faults |-> faults, again |-> again]

Repeats(op, sink, kind) ==
    /\ last.op = op /\ last.sink = sink /\ last.kind = kind
    /\ last.exc = "none" /\ last.faults = {}

Init ==
    /\ loader = NoLoader
    /\ extractor = NoExtractor
    /\ last = Did("init", "", "", "none", FALSE, PyNone, 0, {}, FALSE)
    /\ fsSink = NoSink
    /\ sqlSink = NoSink
    /\ fs = EmptyFs
    /\ db = EmptyDb
    /\ results = NoResults
    /\ ops = 0

Step == ops < MaxOps /\ ops' = ops + 1

\* extractor = DataExtractor(loader_class)
NewExtractor(l) ==
    /\ Step
    /\ LET r == DataExtractor_init(l) IN
        /\ loader' = l
        /\ extractor' = r.obj
        /\ last' = Did("DataExtractor", "", "", r.exc, r.parser, PyNone, 0, {}, FALSE)
    /\ results' = NoResults
    /\ UNCHANGED <<fsSink, sqlSink, fs, db>>

\* an extract_text that drains the paragraphs it has read
SelfAfter_Draining(kind, x) ==
    IF kind = "text" /\ x.file_loader.cls = "DOCXLoader"
    THEN [x EXCEPT !.content.paragraphs = <<>>]
    ELSE x

\* the fields of the extractor after one of its extract_* methods ran: none
\* of them assigns self.file_loader or self.content
SelfAfter(kind, x) == x

\* extractor.extract_text(), extract_links(), ...
CallExtract(kind) ==
    /\ Step
    /\ extractor /= NoExtractor
    /\ LET r == Extract(kind, extractor) IN
        /\ results' = [results EXCEPT ![kind] = r]
        /\ last' = Did("extract", "", kind, r.exc, FALSE, r.val, 0, {},
                    results[kind] /= NotCalled)
    /\ extractor' = SelfAfter(kind, extractor)
    /\ UNCHANGED <<loader, fsSink, sqlSink, fs, db>>

\* fs_storage = Storage(extractor, base_output_folder)
NewStorage(fault) ==
    /\ Step
    /\ extractor /= NoExtractor
    /\ LET r == Storage_init(extractor, fs, fault) IN
        /\ fsSink' = r.obj
        /\ fs' = r.fs
        /\ last' = Did("Storage", "fs", "", r.exc, FALSE, PyNone, 0,
                    IF fault THEN {0} ELSE {}, FALSE)
    /\ UNCHANGED <<loader, extractor, sqlSink, db, results>>

\* sql_storage = StorageSQL(extractor, db_config)
NewStorageSQL(fault) ==
    /\ Step
    /\ extractor /= NoExtractor
    /\ LET r == StorageSQL_init(extractor, db, fault) IN
        /\ sqlSink' = r.obj
        /\ db' = r.db
        /\ last' = Did("StorageSQL", "sql", "", r.exc, FALSE, PyNone, 0,
                    IF fault THEN {0} ELSE {}, FALSE)
    /\ UNCHANGED <<loader, extractor, fsSink, fs, results>>

\* the calls of a save_* operation that the environment can make fail
FaultPoints(sink, kind, x) ==
    IF Extract(kind, x).exc /= "none" THEN {}
    ELSE IF sink = "fs" /\ kind = "metadata" THEN {0, 1}
    ELSE IF sink = "fs" /\ kind \in {"text", "links"} THEN {1}
    ELSE IF sink = "sql" /\ kind = "metadata" THEN {}
    ELSE 1..Len(Extract(kind, x).val.v)

\* fs_storage.save_text(), save_links(), ...
FsSave(kind, faults) ==
    /\ Step
    /\ fsSink.made
    /\ LET r == Storage_save(kind, fsSink, fs, faults) IN
        /\ fs' = r.fs
        /\ last' = Did("save", "fs", kind, r.exc, FALSE, PyNone, 0, faults,
                    Repeats("save", "fs", kind))
    /\ extractor' = IF fsSink.extractor = extractor
                    THEN SelfAfter(kind, extractor) ELSE extractor
    /\ UNCHANGED <<loader, fsSink, sqlSink, db, results>>

\* sql_storage.save_text(), save_links(), ...
SqlSave(kind, faults) ==
    /\ Step
    /\ sqlSink.made
    /\ LET r == StorageSQL_save(kind, sqlSink, db, faults) IN
        /\ db' = r.db
        /\ last' = Did("save", "sql", kind, r.exc, FALSE, PyNone, r.n, faults,
                    Repeats("save", "sql", kind))
    /\ extractor' = IF sqlSink.extractor = extractor
                    THEN SelfAfter(kind, extractor) ELSE extractor
    /\ UNCHANGED <<loader, fsSink, sqlSink, fs, results>>

\* sql_storage.close()
SqlClose ==
    /\ Step
    /\ sqlSink.made
    /\ LET r == StorageSQL_close(sqlSink, db) IN
        /\ sqlSink' = r.obj
        /\ db' = r.db
    /\ last' = Did("close", "sql", "", "none", FALSE, PyNone, 0, {}, FALSE)
    /\ UNCHANGED <<loader, extractor, fsSink, fs, results>>

Next ==
    \/ \E l \in Loaders : NewExtractor(l)
    \/ \E kind \in Kinds : CallExtract(kind)
    \/ \E fault \in BOOLEAN : NewStorage(fault)
    \/ \E fault \in BOOLEAN : NewStorageSQL(fault)
    \/ \E kind \in Kinds : \E faults \in SUBSET FaultPoints("fs", kind, fsSink.extractor) :
          FsSave(kind, faults)
    \/ \E kind \in Kinds : \E faults \in SUBSET FaultPoints("sql", kind, sqlSink.extractor) :
          SqlSave(kind, faults)
    \/ SqlClose

Spec == Init /\ [][Next]_vars

\* extractor = DataExtractor(loader) with the classes of extractor.py;
\* fault: the rasterizer fails
LegacyNewExtractor(l, fault) ==
    /\ Step
    /\ LET r == Legacy_DataExtractor_init(l, fault) IN
        /\ loader' = l
        /\ extractor' = r.obj
        /\ last' = Did("DataExtractor", "", "", r.exc, r.parser, PyNone, 0,
                       IF fault THEN {0} ELSE {}, FALSE)
    /\ results' = NoResults
    /\ UNCHANGED <<fsSink, sqlSink, fs, db>>

\* extractor.extract_text() with the classes of extractor.py
LegacyExtractText ==
    /\ Step
    /\ extractor /= NoExtractor
    /\ LET r == Legacy_extract_text(extractor) IN
        /\ results' = [results EXCEPT !["text"] = r]
        /\ last' = Did("extract", "", "text", r.exc, FALSE, r.val, 0, {},
                       results["text"] /= NotCalled)
    /\ UNCHANGED <<loader, extractor, fsSink, sqlSink, fs, db>>

\* extractor.extract_links() with the classes of extractor.py
LegacyExtractLinks ==
    /\ Step
    /\ extractor /= NoExtractor
    /\ LET r == Legacy_extract_links(extractor) IN
        /\ results' = [results EXCEPT !["links"] = r]
        /\ last' = Did("extract", "", "links", r.exc, FALSE, r.val, 0, {},
                       results["links"] /= NotCalled)
    /\ UNCHANGED <<loader, extractor, fsSink, sqlSink, fs, db>>

NextLegacy ==
    \/ \E l \in Loaders : \E fault \in BOOLEAN : LegacyNewExtractor(l, fault)
    \/ LegacyExtractText
    \/ LegacyExtractLinks

SpecLegacy == Init /\ [][NextLegacy]_vars

\* ------------------------------------------------- tables through the sink

\* cells of a table: empty text, text, None, text holding the delimiters
CellInputs == {E, A, NoneCell, <<"c", ",", "\n">>}

\* rows of no, one and two cells
RowInputs ==
    {<<>>} \cup {<<a>> : a \in CellInputs} \cup {<<a, b>> : a \in CellInputs, b \in {E, A}}

MaxRows == 2

TableInputs == UNION {[1..n -> RowInputs] : n \in 0..MaxRows}

\* a .docx whose only table is t, as extract_docx_tables reads it
TableLoader(t) ==
    Loader("DOCXLoader", File("docx", TRUE, DocxDoc(<<>>, <<RelStyles>>, <<t>>)))

\* one document is processed: its extractor is constructed once
NextTables ==
    \/ \E t \in TableInputs : extractor = NoExtractor /\ NewExtractor(TableLoader(t))
    \/ \E fault \in BOOLEAN : NewStorageSQL(fault)
    \/ \E faults \in SUBSET FaultPoints("sql", "tables", sqlSink.extractor) :
          SqlSave("tables", faults)

SpecTables == Init /\ [][NextTables]_vars


\* ------------------------------------------------- images through the sinks

\* an embedded JPEG, as bytes
ImgJpeg == [py |-> "bytes", decodable |-> TRUE, format |-> "JPEG", id |-> 5]

MaxImages == 3

\* the pictures of a slide: decodable ones and one that is not
ImageInputs == UNION {[1..n -> {ImgPng, ImgJpeg, ImgBad}] : n \in 0..MaxImages}

\* a picture shape holding the image
PicShape(im) == Shape(FALSE, E, FALSE, <<>>, PICTURE, im, FALSE, <<>>)

\* a .pptx of one slide whose shapes are the pictures, as extract_ppt_images
\* reads them
ImageLoader(images) ==
    Loader("PPTLoader", File("pptx", TRUE, PptDoc(<< Map(PicShape, images) >>)))

\* one document is processed: its extractor is constructed once
NextImages ==
    \/ \E images \in ImageInputs : extractor = NoExtractor /\ NewExtractor(ImageLoader(images))
    \/ \E fault \in BOOLEAN : NewStorage(fault)
    \/ \E fault \in BOOLEAN : NewStorageSQL(fault)
    \/ \E faults \in SUBSET FaultPoints("fs", "images", fsSink.extractor) :
          FsSave("images", faults)
    \/ \E faults \in SUBSET FaultPoints("sql", "images", sqlSink.extractor) :
          SqlSave("images", faults)

SpecImages == Init /\ [][NextImages]_vars

\* ------------------------------------------------------------ process_file

\* the calls of process_file in program order
Script ==
    << [op |-> "DataExtractor", kind |-> ""], [op |-> "StorageSQL", kind |-> ""],
       [op |-> "sql", kind |-> "text"], [op |-> "sql", kind |-> "links"],
       [op |-> "sql", kind |-> "images"], [op |-> "sql", kind |-> "tables"],
       [op |-> "sql", kind |-> "metadata"], [op |-> "close", kind |-> ""],
       [op |-> "Storage", kind |-> ""],
       [op |-> "fs", kind |-> "text"], [op |-> "fs", kind |-> "links"],
       [op |-> "fs", kind |-> "images"], [op |-> "fs", kind |-> "tables"],
       [op |-> "fs", kind |-> "metadata"] >>

\* process_file is at the call `op`: every call before it returned, and an
\* exception of a call leaves process_file at once
NextIs(op) == ops < Len(Script) /\ Script[ops + 1].op = op

At(op) ==
    /\ NextIs(op)
    /\ last.exc = "none"
    /\ ops' = ops + 1

\* process_file has returned, or an exception has left it
Returned == ops = Len(Script) /\ last.exc = "none"
Propagated == last.exc /= "none"

ProcNewExtractor(l) ==
    /\ At("DataExtractor")
    /\ LET r == DataExtractor_init(l) IN
        /\ loader' = l
        /\ extractor' = r.obj
        /\ last' = Did("DataExtractor", "", "", r.exc, r.parser, PyNone, 0, {}, FALSE)
    /\ UNCHANGED <<fsSink, sqlSink, fs, db, results>>

ProcNewStorageSQL(fault) ==
    /\ At("StorageSQL")
    /\ LET r == StorageSQL_init(extractor, db, fault) IN
        /\ sqlSink' = r.obj
        /\ db' = r.db
        /\ last' = Did("StorageSQL", "sql", "", r.exc, FALSE, PyNone, 0,
                       IF fault THEN {0} ELSE {}, FALSE)
    /\ UNCHANGED <<loader, extractor, fsSink, fs, results>>

ProcSqlSave(faults) ==
    /\ At("sql")
    /\ LET kind == Script[ops + 1].kind
           r == StorageSQL_save(kind, sqlSink, db, faults)
       IN  /\ db' = r.db
           /\ last' = Did("save", "sql", kind, r.exc, FALSE, PyNone, r.n, faults, FALSE)
    /\ UNCHANGED <<loader, extractor, fsSink, sqlSink, fs, results>>

ProcSqlClose ==
    /\ At("close")
    /\ LET r == StorageSQL_close(sqlSink, db) IN
        /\ sqlSink' = r.obj
        /\ db' = r.db
    /\ last' = Did("close", "sql", "", "none", FALSE, PyNone, 0, {}, FALSE)
    /\ UNCHANGED <<loader, extractor, fsSink, fs, results>>

ProcNewStorage(fault) ==
    /\ At("Storage")
    /\ LET r == Storage_init(extractor, fs, fault) IN
        /\ fsSink' = r.obj
        /\ fs' = r.fs
        /\ last' = Did("Storage", "fs", "", r.exc, FALSE, PyNone, 0,
                       IF fault THEN {0} ELSE {}, FALSE)
    /\ UNCHANGED <<loader, extractor, sqlSink, db, results>>

ProcFsSave(faults) ==
    /\ At("fs")
    /\ LET kind == Script[ops + 1].kind
           r == Storage_save(kind, fsSink, fs, faults)
       IN  /\ fs' = r.fs
           /\ last' = Did("save", "fs", kind, r.exc, FALSE, PyNone, 0, faults, FALSE)
    /\ UNCHANGED <<loader, extractor, fsSink, sqlSink, db, results>>

NextProcess ==
    \/ \E l \in Loaders : ProcNewExtractor(l)
    \/ \E fault \in BOOLEAN : ProcNewStorageSQL(fault)
    \/ /\ NextIs("sql") /\ sqlSink.made
       /\ \E faults \in SUBSET FaultPoints("sql", Script[ops + 1].kind, sqlSink.extractor) :
             ProcSqlSave(faults)
    \/ ProcSqlClose
    \/ \E fault \in BOOLEAN : ProcNewStorage(fault)
    \/ /\ NextIs("fs") /\ fsSink.made
       /\ \E faults \in SUBSET FaultPoints("fs", Script[ops + 1].kind, fsSink.extractor) :
             ProcFsSave(faults)

SpecProcess == Init /\ [][NextProcess]_vars

\* ----------------------------------------------------------------- main

\* main: process_file on the PDF, then on the DOCX, then on the PPT file
MainClasses_DocxFirst == <<"DOCXLoader", "PDFLoader", "PPTLoader">>

MainClasses == <<"PDFLoader", "DOCXLoader", "PPTLoader">>

\* the calls of the three process_file runs, one after the other
MainScript == Script \o Script \o Script

\* the file main is at: the one whose process_file makes call number i
FileAt(i) == ((i - 1) \div Len(Script)) + 1

\* get_file_path accepts any path that names an existing file
MainDocs ==
    { PdfDoc(<<" ", "a", "b", "\n">>, <<PgRich>>),
      DocxDoc(<<A>>, <<RelStyles, RelLink(U1)>>, <<>>),
      PptDoc(<< <<ShTitle>>, <<ShLink>> >>),
      Corrupt }

MainLoaders(i) ==
    {l \in Loaders : /\ l.cls = MainClasses[i]
                     /\ l.file_path.exists
                     /\ l.file_path.doc \in MainDocs}

\* main is at the call `op` of the current process_file: every call before
\* it returned, and an exception of a call leaves process_file and main
MainIs(op) == ops < Len(MainScript) /\ MainScript[ops + 1].op = op

MainAt(op) ==
    /\ MainIs(op)
    /\ last.exc = "none"
    /\ ops' = ops + 1

MainNewExtractor(l) ==
    /\ MainAt("DataExtractor")
    /\ LET r == DataExtractor_init(l) IN
        /\ loader' = l
        /\ extractor' = r.obj
        /\ last' = Did("DataExtractor", "", "", r.exc, r.parser, PyNone, 0, {}, FALSE)
    /\ UNCHANGED <<fsSink, sqlSink, fs, db, results>>

MainNewStorageSQL(fault) ==
    /\ MainAt("StorageSQL")
    /\ LET r == StorageSQL_init(extractor, db, fault) IN
        /\ sqlSink' = r.obj
        /\ db' = r.db
        /\ last' = Did("StorageSQL", "sql", "", r.exc, FALSE, PyNone, 0,
                       IF fault THEN {0} ELSE {}, FALSE)
    /\ UNCHANGED <<loader, extractor, fsSink, fs, results>>

MainSqlSave(faults) ==
    /\ MainAt("sql")
    /\ LET kind == MainScript[ops + 1].kind
           r == StorageSQL_save(kind, sqlSink, db, faults)
       IN  /\ db' = r.db
           /\ last' = Did("save", "sql", kind, r.exc, FALSE, PyNone, r.n, faults, FALSE)
    /\ UNCHANGED <<loader, extractor, fsSink, sqlSink, fs, results>>

MainSqlClose ==
    /\ MainAt("close")
    /\ LET r == StorageSQL_close(sqlSink, db) IN
        /\ sqlSink' = r.obj
        /\ db' = r.db
    /\ last' = Did("close", "sql", "", "none", FALSE, PyNone, 0, {}, FALSE)
    /\ UNCHANGED <<loader, extractor, fsSink, fs, results>>

MainNewStorage(fault) ==
    /\ MainAt("Storage")
    /\ LET r == Storage_init(extractor, fs, fault) IN
        /\ fsSink' = r.obj
        /\ fs' = r.fs
        /\ last' = Did("Storage", "fs", "", r.exc, FALSE, PyNone, 0,
                       IF fault THEN {0} ELSE {}, FALSE)
    /\ UNCHANGED <<loader, extractor, sqlSink, db, results>>

MainFsSave(faults) ==
    /\ MainAt("fs")
    /\ LET kind == MainScript[ops + 1].kind
           r == Storage_save(kind, fsSink, fs, faults)
       IN  /\ fs' = r.fs
           /\ last' = Did("save", "fs", kind, r.exc, FALSE, PyNone, 0, faults, FALSE)
    /\ UNCHANGED <<loader, extractor, fsSink, sqlSink, db, results>>

NextMain ==
    \/ /\ MainIs("DataExtractor")
       /\ \E l \in MainLoaders(FileAt(ops + 1)) : MainNewExtractor(l)
    \/ \E fault \in BOOLEAN : MainNewStorageSQL(fault)
    \/ /\ MainIs("sql") /\ sqlSink.made
       /\ \E faults \in SUBSET FaultPoints("sql", MainScript[ops + 1].kind, sqlSink.extractor) :
             MainSqlSave(faults)
    \/ MainSqlClose
    \/ \E fault \in BOOLEAN : MainNewStorage(fault)
    \/ /\ MainIs("fs") /\ fsSink.made
       /\ \E faults \in SUBSET FaultPoints("fs", MainScript[ops + 1].kind, fsSink.extractor) :
             MainFsSave(faults)

SpecMain == Init /\ [][NextMain]_vars

\* ------------------------------------------------------------------ claims

\* the loader's path names an existing file with the loader's extension
PathAccepted(l) == l.file_path.ext = ExtOf(l.cls) /\ l.file_path.exists

\* the loader's file is a well-formed document of the loader's format
HoldsDocument(l) ==
    l.cls \in LoaderClasses /\ PathAccepted(l) /\ l.file_path.doc.fmt = l.file_path.ext

DocOf(x) == x.file_loader.file_path.doc

\* C1: load_file on a path without the loader's extension, or naming no
\* existing file, raises before the underlying parser runs and yields no
\* handle: no DataExtractor exists, and no sink holds an extractor of such a
\* path, so no write is made for it.
C1_InvalidPathFailsFast ==
    /\ (last.op = "DataExtractor" /\ loader.cls \in LoaderClasses /\ ~PathAccepted(loader))
          => (last.exc = "ValueError" /\ ~last.parser /\ extractor = NoExtractor)
    /\ \A sink \in {fsSink, sqlSink} :
          (sink.made /\ sink.extractor.file_loader.cls \in LoaderClasses)
              => PathAccepted(sink.extractor.file_loader)

C1_Witness ==
    /\ last.op = "DataExtractor"
    /\ loader.cls = "DOCXLoader"
    /\ loader.file_path.ext = "docx"
    /\ ~loader.file_path.exists
    /\ last.exc = "ValueError"

\* C2: extract_text on a PDF whose text layer is empty or whitespace-only
\* falls back to OCR and returns non-empty text when a page yields OCR text.
C2_OcrFallbackInExtractText ==
    (/\ last.op = "extract" /\ last.kind = "text"
     /\ extractor.file_loader.cls = "PDFLoader"
     /\ HoldsDocument(extractor.file_loader)
     /\ strip(DocOf(extractor).text) = <<>>
     /\ \E i \in DOMAIN DocOf(extractor).pages :
           DocOf(extractor).pages[i].ocr.ok /\ DocOf(extractor).pages[i].ocr.text /= <<>>)
        => (last.exc = "none" /\ last.ret.type = "str" /\ last.ret.v /= <<>>)

\* what a document holds, read off its structure
LinksIn(doc) ==
    IF doc.fmt = "pdf" THEN
        {<<i, j>> \in (DOMAIN doc.pages) \X (1..3) :
            j \in DOMAIN doc.pages[i].annots /\ doc.pages[i].annots[j].uri /= ""}
    ELSE IF doc.fmt = "docx" THEN
        {<<i, 1>> : i \in {k \in DOMAIN doc.rels : doc.rels[k].reltype = "hyperlink"}}
    ELSE {<<i, 1>> : i \in {k \in DOMAIN AllShapes(doc) :
                              \E r \in DOMAIN Flatten(AllShapes(doc)[k].paragraphs) :
                                  Flatten(AllShapes(doc)[k].paragraphs)[r].address
                                      \notin {NoneVal, ""}}}

ImagesIn(doc) ==
    IF doc.fmt = "pdf" THEN {i \in DOMAIN doc.pages : doc.pages[i].images /= <<>>}
    ELSE IF doc.fmt = "docx" THEN {k \in DOMAIN doc.rels : doc.rels[k].reltype = "image"}
    ELSE {k \in DOMAIN AllShapes(doc) : AllShapes(doc)[k].shape_type = PICTURE}

TablesIn(doc) ==
    IF doc.fmt = "pdf" THEN {i \in DOMAIN doc.pages : doc.pages[i].tables /= <<>>}
    ELSE IF doc.fmt = "docx" THEN DOMAIN doc.tables
    ELSE {k \in DOMAIN AllShapes(doc) : AllShapes(doc)[k].has_table}

ItemsIn(kind, doc) ==
    CASE kind = "links" -> LinksIn(doc)
      [] kind = "images" -> ImagesIn(doc)
      [] kind = "tables" -> TablesIn(doc)

\* C5: for each format, extract_links, extract_images and extract_tables on
\* a document holding no link, image or table return the empty list, never
\* None and never an exception.
C5_NoItemsGivesEmptyList ==
    (/\ last.op = "extract" /\ last.kind \in {"links", "images", "tables"}
     /\ HoldsDocument(extractor.file_loader)
     /\ ItemsIn(last.kind, DocOf(extractor)) = {})
        => (last.exc = "none" /\ last.ret = PyList(<<>>))

EmptyDefault(kind) ==
    IF kind = "text" THEN PyStr(<<>>)
    ELSE IF kind = "metadata" THEN PyDict(<<>>)
    ELSE PyList(<<>>)

\* C7: on an extractor whose loader is none of the three loader classes,
\* every extract_* returns the empty default of its kind and raises nothing.
C7_UnknownLoaderGivesDefaults ==
    (last.op = "extract" /\ extractor.file_loader.cls \notin LoaderClasses)
        => (last.exc = "none" /\ last.ret = EmptyDefault(last.kind))

C7_Witness ==
    /\ last.op = "extract" /\ last.kind = "metadata"
    /\ extractor.file_loader.cls = "OtherLoader"
    /\ results["text"] = Ok(PyStr(<<>>))

\* the files of a directory of the output tree
FilesUnder(tree, dir) == {q \in DOMAIN tree.files : q.dir = dir}

\* the table a content kind is stored in
TableOf(kind) ==
    CASE kind = "text" -> "extracted_text"
      [] kind = "links" -> "extracted_links"
      [] kind = "images" -> "extracted_images"
      [] kind = "tables" -> "extracted_tables"
      [] kind = "metadata" -> "extracted_metadata"

\* the rows of a table as the open connection sees them
RowsSeen(d, t) == d.rows[t] \o d.pending[t]

IsPrefix(a, b) == Len(a) <= Len(b) /\ SubSeq(b, 1, Len(a)) = a

\* this step is a save_* call that repeats the call before it, both
\* completing without exception or injected fault
RepeatedSave(sink) ==
    /\ last'.op = "save" /\ last'.sink = sink /\ last'.again
    /\ last'.exc = "none" /\ last'.faults = {}

\* C8 as stated: in both sinks a write performed twice leaves two
\* records/versions, the second added to what the first stored.
C8_SecondWriteAppends ==
    [][/\ RepeatedSave("sql") =>
            /\ IsPrefix(db.rows[TableOf(last'.kind)], db'.rows[TableOf(last'.kind)])
            /\ Len(db'.rows[TableOf(last'.kind)])
                  = Len(db.rows[TableOf(last'.kind)]) + last.n
       /\ (RepeatedSave("fs") /\ fs.files /= <<>>) =>
            /\ \A q \in DOMAIN fs.files : q \in DOMAIN fs'.files /\ fs'.files[q] = fs.files[q]
            /\ Cardinality(DOMAIN fs'.files) > Cardinality(DOMAIN fs.files)]_vars

\* C8 amended: the relational sink appends (the rows of the first write stay
\* and the second write adds as many again); the filesystem sink rewrites the
\* same files in place, leaving one version of each with the same content.
C8_SqlAppendsFsRewrites ==
    [][/\ RepeatedSave("sql") =>
            /\ \A t \in TableNames : IsPrefix(db.rows[t], db'.rows[t])
            /\ last'.n = last.n
            /\ Len(db'.rows[TableOf(last'.kind)])
                  = Len(db.rows[TableOf(last'.kind)]) + last.n
       /\ RepeatedSave("fs") => fs' = fs]_vars

C8_Witness ==
    /\ last.op = "save" /\ last.sink = "sql" /\ last.again
    /\ last.exc = "none" /\ last.faults = {} /\ last.n > 0
    /\ Len(db.rows[TableOf(last.kind)]) = last.n + last.n

C8_WitnessFs ==
    /\ last.op = "save" /\ last.sink = "fs" /\ last.again
    /\ last.exc = "none" /\ last.faults = {}
    /\ FilesUnder(fs, last.kind) /= {}

\* the format tag of a loader class
TagOf(cls) ==
    IF cls = "PDFLoader" THEN "pdf"
    ELSE IF cls = "DOCXLoader" THEN "docx"
    ELSE IF cls = "PPTLoader" THEN "ppt"
    ELSE "unknown"

\* <base>/<kind>/<format>_<kind>.txt
KindFile(kind, x) == Path(kind, <<TagOf(x.file_loader.cls), "_", kind, ".", "txt">>)

\* C9: on the filesystem sink, save_text of an empty extracted text and
\* save_links of an empty link list succeed and leave <base>/text/
\* <format>_text.txt, respectively <base>/links/<format>_links.txt, existing
\* and empty (the open() call not failing).
C9_EmptyTextAndLinksFiles ==
    (/\ last.op = "save" /\ last.sink = "fs" /\ last.kind \in {"text", "links"}
     /\ last.faults = {}
     /\ Extract(last.kind, fsSink.extractor) = Ok(EmptyDefault(last.kind)))
        => /\ last.exc = "none"
           /\ KindFile(last.kind, fsSink.extractor) \in DOMAIN fs.files
           /\ fs.files[KindFile(last.kind, fsSink.extractor)] = <<>>

C9_Witness ==
    /\ last.op = "save" /\ last.sink = "fs" /\ last.kind = "links" /\ last.faults = {}
    /\ Extract("links", fsSink.extractor) = Ok(PyList(<<>>))
    /\ fsSink.extractor.file_loader.cls = "PPTLoader"
    /\ KindFile("links", fsSink.extractor) \in DOMAIN fs.files

\* C10: writing an empty table list or empty image list creates no file
\* under tables/ or images/ (the tables directory exists), and the
\* relational sink executes no INSERT for an empty link, table or image list.
C10_EmptySetsLeaveNoRecord ==
    [][/\ (/\ last'.op = "save" /\ last'.sink = "fs" /\ last'.kind \in {"tables", "images"}
           /\ Extract(last'.kind, fsSink.extractor) = Ok(PyList(<<>>)))
          => /\ last'.exc = "none"
             /\ FilesUnder(fs', last'.kind) = FilesUnder(fs, last'.kind)
             /\ fs'.files = fs.files
             /\ "tables" \in fs'.dirs
       /\ (/\ last'.op = "save" /\ last'.sink = "sql"
           /\ last'.kind \in {"links", "tables", "images"}
           /\ Extract(last'.kind, sqlSink.extractor) = Ok(PyList(<<>>)))
          => /\ last'.n = 0
             /\ \A t \in TableNames : RowsSeen(db', t) = RowsSeen(db, t)]_vars

C10_Witness ==
    /\ last.op = "save" /\ last.sink = "sql" /\ last.kind = "tables"
    /\ last.exc = "none"
    /\ Extract("tables", sqlSink.extractor) = Ok(PyList(<<>>))
    /\ fsSink.made /\ FilesUnder(fs, "tables") = {}

\* the OCR fallback of extractor.py ran on the document just loaded: the
\* file is a PDF with a blank text layer and the pages were rasterized
OcrFallbackRan ==
    /\ last.op = "DataExtractor" /\ last.faults = {}
    /\ loader.cls = "PDFLoader" /\ HoldsDocument(loader)
    /\ strip(loader.file_path.doc.text) = <<>>

OcrFailedOn(doc) == {i \in DOMAIN doc.pages : ~doc.pages[i].ocr.ok}

\* C3: when the OCR fallback runs and OCR fails on every page, loading fails
\* with an error instead of yielding a handle with empty text.
C3_TotalOcrFailureRaises ==
    (OcrFallbackRan /\ OcrFailedOn(loader.file_path.doc) = DOMAIN loader.file_path.doc.pages)
        => (last.exc /= "none" /\ extractor = NoExtractor)

\* the OCR text of page i, empty when OCR failed on it
OcrTextOf(doc, i) == IF doc.pages[i].ocr.ok THEN doc.pages[i].ocr.text ELSE <<>>

\* C4: when the OCR fallback runs and OCR fails on some but not all pages,
\* no error propagates and the text is the concatenation, in page order, of
\* the OCR text of the pages that succeeded.
C4_PartialOcrFailureIsSkipped ==
    (/\ OcrFallbackRan
     /\ OcrFailedOn(loader.file_path.doc) /= {}
     /\ OcrFailedOn(loader.file_path.doc) /= DOMAIN loader.file_path.doc.pages)
        => /\ last.exc = "none"
           /\ extractor /= NoExtractor
           /\ extractor.content.text
                 = Flatten([i \in DOMAIN loader.file_path.doc.pages |->
                               OcrTextOf(loader.file_path.doc, i)])
           /\ Legacy_extract_text(extractor) = Ok(PyStr(extractor.content.text))

C4_Witness ==
    /\ OcrFallbackRan
    /\ loader.file_path.doc.pages = <<PgBroken, PgScan2>>
    /\ extractor /= NoExtractor
    /\ extractor.content.text = <<"y", "\n">>

\* str.split(sep) on a text: the pieces between the occurrences of sep
RECURSIVE Split(_, _)
Split(s, sep) ==
    IF \A i \in DOMAIN s : s[i] /= sep THEN <<s>>
    ELSE LET i == CHOOSE k \in DOMAIN s : s[k] = sep /\ \A j \in 1..(k - 1) : s[j] /= sep
         IN  <<SubSeq(s, 1, i - 1)>> \o Split(SubSeq(s, i + 1, Len(s)), sep)

\* the blob split back on newline, each line on comma
Deserialize(blob) == [r \in DOMAIN Split(blob, "\n") |-> Split(Split(blob, "\n")[r], ",")]

\* the table with its null cells read as empty text
Nulled(table) ==
    [r \in DOMAIN table |->
        [c \in DOMAIN table[r] |-> IF table[r][c] = NoneCell THEN <<>> ELSE table[r][c]]]

DelimiterFree(table) ==
    \A r \in DOMAIN table : \A c \in DOMAIN table[r] :
        table[r][c] = NoneCell
            \/ \A i \in DOMAIN table[r][c] : table[r][c][i] \notin {",", "\n"}

\* save_tables has just stored the tables of the sink's document
TablesStored ==
    /\ last.op = "save" /\ last.sink = "sql" /\ last.kind = "tables"
    /\ last.exc = "none" /\ last.faults = {}

\* the k-th table of the document and the blob of the row stored for it
TableAt(k) == extract_tables(sqlSink.extractor).val.v[k]
BlobAt(k) ==
    db.rows["extracted_tables"][Len(db.rows["extracted_tables"]) - last.n + k][2][2]

\* C11 as stated: the stored blob of every table without a delimiter in its
\* cells, split on newline and comma, gives back the table's rows and cells.
C11_BlobRoundTrip ==
    TablesStored =>
        \A k \in 1..last.n :
            DelimiterFree(TableAt(k)) => Deserialize(BlobAt(k)) = Nulled(TableAt(k))

\* C11 amended: the round trip holds for a table with at least one row whose
\* rows all have at least one cell, null cells coming back as empty text.
C11_BlobRoundTripNonEmpty ==
    TablesStored =>
        \A k \in 1..last.n :
            (/\ DelimiterFree(TableAt(k))
             /\ TableAt(k) /= <<>>
             /\ \A r \in DOMAIN TableAt(k) : TableAt(k)[r] /= <<>>)
                => Deserialize(BlobAt(k)) = Nulled(TableAt(k))

C11_Witness ==
    /\ TablesStored /\ last.n = 1
    /\ TableAt(1) = << <<A, E>>, <<NoneCell, A>> >>
    /\ Deserialize(BlobAt(1)) = << <<A, E>>, <<E, A>> >>

\* save_metadata of the filesystem sink has just run to its end
MetadataSaved ==
    /\ last.op = "save" /\ last.sink = "fs" /\ last.kind = "metadata"
    /\ last.exc = "none" /\ last.faults = {}

\* the entries of the mapping extract_metadata returns, in mapping order
EntriesOf(x) == extract_metadata(x).val.v

\* a value as the file shows it: None by the fixed text None
Shown(v) == IF v = NoneVal THEN "None" ELSE v

\* the lines of a file: the pieces its line ends terminate
LinesOf(content) ==
    LET pieces == Split(content, "\n") IN SubSeq(pieces, 1, Len(pieces) - 1)

\* C12: save_metadata of the filesystem sink leaves <base>/metadata/
\* <format>_metadata.txt holding exactly one line `key: value` per metadata
\* entry, in mapping order, a None value shown by the text None.
C12_MetadataLines ==
    MetadataSaved =>
        LET file == KindFile("metadata", fsSink.extractor)
            entries == EntriesOf(fsSink.extractor)
        IN  /\ file \in DOMAIN fs.files
            /\ Split(fs.files[file], "\n")[Len(Split(fs.files[file], "\n"))] = <<>>
            /\ Len(LinesOf(fs.files[file])) = Len(entries)
            /\ \A i \in DOMAIN entries :
                  LinesOf(fs.files[file])[i] = <<entries[i][1], ": ", Shown(entries[i][2])>>

C12_Witness ==
    /\ MetadataSaved
    /\ fsSink.extractor.file_loader.cls = "DOCXLoader"
    /\ KindFile("metadata", fsSink.extractor) \in DOMAIN fs.files
    /\ LinesOf(fs.files[KindFile("metadata", fsSink.extractor)])[1] = <<"title", ": ", "T">>
    /\ LinesOf(fs.files[KindFile("metadata", fsSink.extractor)])[6] = <<"modified", ": ", "None">>

\* the hyperlinked runs of a slide deck, slide by slide and shape by shape
LinkedRuns(doc) ==
    SelectSeq(Flatten([k \in DOMAIN AllShapes(doc) |-> Flatten(AllShapes(doc)[k].paragraphs)]),
              LAMBDA run : run.address \notin {NoneVal, ""})

\* C13: for a slide deck whose only hyperlink is one hyperlinked text run,
\* extract_links returns a one-element list whose element is the address
\* string of that run, not a pair.
C13_PptLinkIsAddress ==
    (/\ last.op = "extract" /\ last.kind = "links"
     /\ extractor.file_loader.cls = "PPTLoader"
     /\ HoldsDocument(extractor.file_loader)
     /\ Len(LinkedRuns(DocOf(extractor))) = 1)
        => /\ last.exc = "none"
           /\ last.ret.type = "list"
           /\ last.ret.v = <<LinkedRuns(DocOf(extractor))[1].address>>

\* C14: each StorageSQL.save_text inserts exactly one row of extracted_text,
\* its file_type the format tag and its content the whole string
\* extract_text returns.
C14_TextIsOneRow ==
    (/\ last.op = "save" /\ last.sink = "sql" /\ last.kind = "text"
     /\ last.exc = "none" /\ last.faults = {})
        => /\ last.n = 1
           /\ db.rows["extracted_text"] /= <<>>
           /\ db.rows["extracted_text"][Len(db.rows["extracted_text"])]
                 = << <<"file_type", TagOf(sqlSink.extractor.file_loader.cls)>>,
                      <<"content", extract_text(sqlSink.extractor).val.v>> >>

\* C15: once process_file has constructed the relational sink, its
\* connection is closed when process_file returns and when an exception
\* leaves it; no write is issued on a closed connection.
C15_ConnectionClosedOnEveryPath ==
    /\ ((Returned \/ Propagated) /\ sqlSink.made) => sqlSink.conn = "closed"
    /\ (last.op = "save" /\ last.sink = "sql") => sqlSink.conn = "open"

\* C16: a failure to create an output directory in Storage(...) or to open
\* the database in StorageSQL(...) propagates out of the constructor: no sink
\* object is obtained and nothing is written through that sink.
C16_ConstructionFailureIsFatal ==
    /\ (last.op = "Storage" /\ last.faults /= {})
          => (last.exc /= "none" /\ ~fsSink.made)
    /\ (last.op = "StorageSQL" /\ last.faults /= {})
          => (last.exc /= "none" /\ ~sqlSink.made)
    /\ ~fsSink.made => fs.files = <<>>
    /\ ~sqlSink.made => \A t \in TableNames : RowsSeen(db, t) = <<>>
    /\ (last.op = "save" /\ last.sink = "fs") => fsSink.made
    /\ (last.op = "save" /\ last.sink = "sql") => sqlSink.made

C16_Witness ==
    /\ last.op = "Storage" /\ last.faults = {0}
    /\ last.exc = "PermissionError"
    /\ sqlSink.conn = "closed"
    /\ db.rows["extracted_links"] /= <<>>

\* this step is a save_images of the sink on a sequence of images that
\* extract_images delivered
ImagesSaved(sink, x) ==
    /\ last'.op = "save" /\ last'.sink = sink /\ last'.kind = "images"
    /\ extract_images(x).exc = "none"

\* image idx neither fails to decode nor fails to be saved
Persistable(images, idx, faults) == images[idx].decodable /\ idx \notin faults

\* <base>/images/<format>_image_<n>.<ext>
ImageFile(x, idx, image) ==
    Path("images", <<TagOf(x.file_loader.cls), "_", "image", "_", NumStr(idx),
                     ".", Lower(image.format)>>)

\* the rows of the images that persist, in the order of the sequence
RECURSIVE ImageRowsFrom(_, _, _, _)
ImageRowsFrom(x, images, idx, faults) ==
    IF idx > Len(images) THEN <<>>
    ELSE (IF Persistable(images, idx, faults)
          THEN << << <<"file_type", TagOf(x.file_loader.cls)>>,
                     <<"image", Encoded(images[idx])>> >> >>
          ELSE <<>>) \o ImageRowsFrom(x, images, idx + 1, faults)

\* C17: in both sinks save_images lets no failure of a single image out: an
\* image that fails to decode or to be saved is skipped, and every other
\* image of the sequence, before and after it, is persisted.
C17_BadImageIsSkipped ==
    [][/\ ImagesSaved("fs", fsSink.extractor) =>
            LET images == extract_images(fsSink.extractor).val.v IN
            /\ last'.exc = "none"
            /\ \A idx \in DOMAIN images :
                  IF Persistable(images, idx, last'.faults)
                  THEN /\ ImageFile(fsSink.extractor, idx, images[idx]) \in DOMAIN fs'.files
                       /\ fs'.files[ImageFile(fsSink.extractor, idx, images[idx])]
                             = Encoded(images[idx])
                  ELSE \A q \in DOMAIN fs'.files :
                          (q.dir = "images" /\ q.name[5] = NumStr(idx))
                              => (q \in DOMAIN fs.files /\ fs'.files[q] = fs.files[q])
       /\ (ImagesSaved("sql", sqlSink.extractor) /\ sqlSink.conn = "open") =>
            LET images == extract_images(sqlSink.extractor).val.v IN
            /\ last'.exc = "none"
            /\ db'.rows["extracted_images"]
                  = RowsSeen(db, "extracted_images")
                        \o ImageRowsFrom(sqlSink.extractor, images, 1, last'.faults)]_vars

C17_Witness ==
    /\ last.op = "save" /\ last.sink = "fs" /\ last.kind = "images"
    /\ extract_images(fsSink.extractor) = Ok(PyList(<<ImgPng, ImgBad, ImgJpeg>>))
    /\ last.faults = {1}
    /\ DOMAIN fs.files = {ImageFile(fsSink.extractor, 3, ImgJpeg)}

\* the extractor a sink was constructed on
SinkExtractor(sink) == IF sink = "fs" THEN fsSink.extractor ELSE sqlSink.extractor

\* <base>/tables/table_<format>_<n>.csv
TableFile(x, idx) ==
    Path("tables", <<"table", "_", TagOf(x.file_loader.cls), "_", NumStr(idx), ".", "csv">>)

\* C18: in both sinks save_tables lets no failure of a single table out: the
\* table that cannot be written or inserted is skipped and the remaining
\* tables are persisted.
C18_BadTableIsSkipped ==
    (/\ last.op = "save" /\ last.kind = "tables"
     /\ extract_tables(SinkExtractor(last.sink)).exc = "none"
     /\ last.sink = "sql" => sqlSink.conn = "open")
        => LET tables == extract_tables(SinkExtractor(last.sink)).val.v IN
           /\ last.exc = "none"
           /\ last.sink = "fs" =>
                 \A idx \in DOMAIN tables \ last.faults :
                     TableFile(fsSink.extractor, idx) \in DOMAIN fs.files
           /\ last.sink = "sql" => last.n = Len(tables) - Cardinality(last.faults)

\* the name the layout gives a file of a content kind written for the
\* extractor x
WellNamed(q, kind, x) ==
    /\ q.dir = kind
    /\ CASE kind \in {"text", "links", "metadata"} -> q = KindFile(kind, x)
         [] kind = "images" ->
               \E n \in 1..9 : \E ext \in {"png", "jpeg"} :
                   q = Path("images", <<TagOf(x.file_loader.cls), "_", "image", "_",
                                        NumStr(n), ".", ext>>)
         [] kind = "tables" -> \E n \in 1..9 : q = TableFile(x, n)

\* the files a step has created or changed
Written == {q \in DOMAIN fs'.files : q \notin DOMAIN fs.files \/ fs'.files[q] /= fs.files[q]}

\* C19: every file the filesystem sink writes lies in the subdirectory of its
\* content kind and is named <format>_text.txt, <format>_links.txt,
\* <format>_image_<n>.<ext>, table_<format>_<n>.csv or
\* <format>_metadata.txt, <format> being the tag of the extractor's loader;
\* nothing is written in the base directory itself.
C19_OutputLayout ==
    [][/\ \A q \in Written :
            /\ last'.op = "save" /\ last'.sink = "fs"
            /\ q.dir \in Kinds
            /\ WellNamed(q, last'.kind, fsSink.extractor)
       /\ \A q \in DOMAIN fs.files : q \in DOMAIN fs'.files]_vars

C19_Witness ==
    /\ last.op = "save" /\ last.sink = "fs" /\ last.kind = "images"
    /\ fsSink.extractor.file_loader.cls = "PPTLoader"
    /\ Path("images", <<"ppt", "_", "image", "_", "1", ".", "png">>) \in DOMAIN fs.files
    /\ Path("links", <<"ppt", "_", "links", ".", "txt">>) \in DOMAIN fs.files

\* the logical schema with the image column under the name the spec gives it
StatedSchema ==
    [extracted_text |-> <<"id", "file_type", "content">>,
     extracted_links |-> <<"id", "file_type", "link">>,
     extracted_images |-> <<"id", "file_type", "image_blob">>,
     extracted_tables |-> <<"id", "file_type", "table_data">>,
     extracted_metadata |-> <<"id", "file_type", "key", "value">>]

\* this step is a StorageSQL(...) that returned a sink
SinkConstructed == last'.op = "StorageSQL" /\ last'.exc = "none"

\* C20 as stated: after StorageSQL construction the five tables exist with
\* the stated columns, extracted_images(id, file_type, image_blob) among
\* them, and the rows already stored are untouched.
C20_SchemaAsStated ==
    [][SinkConstructed => (db'.schema = StatedSchema /\ db'.rows = db.rows)]_vars

\* C20 amended: the same, the image column being named image.
C20_SchemaWithImageColumn ==
    [][SinkConstructed =>
          /\ db'.schema = [StatedSchema EXCEPT !.extracted_images = <<"id", "file_type", "image">>]
          /\ db'.rows = db.rows]_vars

C20_Witness ==
    /\ last.op = "StorageSQL" /\ last.exc = "none"
    /\ db.rows["extracted_links"] /= <<>>
    /\ db.schema["extracted_images"] = <<"id", "file_type", "image">>

\* C21: in process_file a failure of one sink does not keep the other sink
\* from persisting the file: after an error of the relational sink the
\* filesystem sink still holds the file's content, and after an error of the
\* filesystem sink the relational writes have been made.
C21_SinksFailIndependently ==
    /\ (Propagated /\ last.sink = "sql")
          => (fsSink.made /\ KindFile("text", extractor) \in DOMAIN fs.files)
    /\ (Propagated /\ last.sink = "fs")
          => (sqlSink.made /\ sqlSink.conn = "closed")

\* C22: when process_file has written a file's text to both sinks, the text
\* file of the filesystem sink and the content column of extracted_text hold
\* the same string, the one extract_text returns, in one row.
C22_TextSameInBothSinks ==
    (Returned /\ KindFile("text", extractor) \in DOMAIN fs.files)
        => /\ fs.files[KindFile("text", extractor)] = extract_text(extractor).val.v
           /\ db.rows["extracted_text"]
                 = << << <<"file_type", TagOf(extractor.file_loader.cls)>>,
                         <<"content", extract_text(extractor).val.v>> >> >>

\* C23: every INSERT the relational sink executes is parameterized: its text
\* is one of five fixed statements with a %s for every column, whatever was
\* extracted, and the extracted values reach the rows as bound parameters.
StatedInserts ==
    { InsertText("extracted_text", <<"file_type", "content">>, <<Placeholder, Placeholder>>),
      InsertText("extracted_links", <<"file_type", "link">>, <<Placeholder, Placeholder>>),
      InsertText("extracted_images", <<"file_type", "image">>, <<Placeholder, Placeholder>>),
      InsertText("extracted_tables", <<"file_type", "table_data">>, <<Placeholder, Placeholder>>),
      InsertText("extracted_metadata", <<"file_type", "key", "value">>,
                 <<Placeholder, Placeholder, Placeholder>>) }

C23_InsertsAreParameterized == db.executed \subseteq StatedInserts

C23_Witness ==
    /\ sqlSink.conn = "closed"
    /\ db.executed = StatedInserts
    /\ Len(db.rows["extracted_links"]) >= 2
    /\ db.rows["extracted_links"][1] /= db.rows["extracted_links"][2]

\* C24: extract_text on a document without text returns exactly "": a PDF
\* whose text layer is empty or only whitespace, and a DOCX without
\* paragraphs.
NoText(x) ==
    \/ DocOf(x).fmt = "pdf" /\ strip(DocOf(x).text) = <<>>
    \/ DocOf(x).fmt = "docx" /\ DocOf(x).paragraphs = <<>>

C24_NoTextGivesEmptyString ==
    (/\ last.op = "extract" /\ last.kind = "text"
     /\ HoldsDocument(extractor.file_loader)
     /\ NoText(extractor))
        => (last.exc = "none" /\ last.ret = PyStr(<<>>))

C24_Witness ==
    /\ last.op = "extract" /\ last.kind = "text"
    /\ HoldsDocument(extractor.file_loader)
    /\ DocOf(extractor).fmt = "pdf"
    /\ DocOf(extractor).text = <<" ", "\n">>
    /\ last.ret = PyStr(<<>>)

\* C25 as stated: the filesystem sink makes every kind subdirectory lazily:
\* a subdirectory comes into being only in a save_* call of its own kind,
\* never in the constructor.
C25_DirectoriesAreLazy ==
    [][\A k \in Kinds :
          (k \in fs'.dirs /\ k \notin fs.dirs)
              => (last'.op = "save" /\ last'.sink = "fs" /\ last'.kind = k)]_vars

EagerDirs == {"images", "tables", "text", "links"}

\* C25: Storage(...) itself creates the images, tables, text and links
\* subdirectories; the save_* calls of these four kinds create none, and only
\* the metadata subdirectory is created lazily, by save_metadata.
C25_OnlyMetadataIsLazy ==
    [][/\ (last'.op = "Storage" /\ last'.exc = "none")
              => (EagerDirs \subseteq fs'.dirs /\ fs'.dirs \ fs.dirs \subseteq EagerDirs)
       /\ (last'.op = "save" /\ last'.sink = "fs" /\ last'.kind \in EagerDirs)
              => fs'.dirs = fs.dirs
       /\ ("metadata" \in fs'.dirs /\ "metadata" \notin fs.dirs)
              => (last'.op = "save" /\ last'.sink = "fs" /\ last'.kind = "metadata")]_vars

C25_Witness ==
    /\ last.op = "Storage" /\ last.exc = "none"
    /\ fsSink.made
    /\ fs.dirs = EagerDirs
    /\ fs.files = <<>>

\* the shapes of a deck whose text is not empty, and the shapes that have a
\* text attribute at all, in slide order then shape order
ShapesWithText(d) == SelectSeq(Flatten(d.slides), LAMBDA sh : sh.hasText /\ sh.text /= <<>>)
ShapesWithTextAttr(d) == SelectSeq(Flatten(d.slides), LAMBDA sh : sh.hasText)
TextsOf(shapes) == [i \in DOMAIN shapes |-> shapes[i].text]
DeckTextExtracted ==
    /\ last.op = "extract" /\ last.kind = "text"
    /\ extractor.file_loader.cls = "PPTLoader"
    /\ HoldsDocument(extractor.file_loader)

SixKeys == {"title", "author", "subject", "keywords", "created", "modified"}
Datetimes == {CoreFull.created}
C27_SixKeyMetadata ==
    (/\ last.op = "extract" /\ last.kind = "metadata"
     /\ HoldsDocument(extractor.file_loader))
        => /\ last.exc = "none"
           /\ last.ret.type = "dict"
           /\ {last.ret.v[i][1] : i \in DOMAIN last.ret.v} = SixKeys
           /\ Len(last.ret.v) = 6
           /\ \A i \in DOMAIN last.ret.v : last.ret.v[i][2] \notin Datetimes

\* C28: every cell of every table extract_tables returns is a string,
\* possibly empty, never None, whatever the format.
C28_CellsAreStrings ==
    (/\ last.op = "extract" /\ last.kind = "tables"
     /\ HoldsDocument(extractor.file_loader)
     /\ last.exc = "none")
        => /\ last.ret.type = "list"
           /\ \A t \in DOMAIN last.ret.v : \A r \in DOMAIN last.ret.v[t] :
                 \A c \in DOMAIN last.ret.v[t][r] : last.ret.v[t][r][c] /= NoneCell

\* the calls process_file makes, as stated: the extractor, the relational
\* sink and its five writes, the close, the filesystem sink and its five
\* writes
StatedOrder ==
    << <<"DataExtractor", "", "">>, <<"StorageSQL", "sql", "">>,
       <<"save", "sql", "text">>, <<"save", "sql", "links">>, <<"save", "sql", "images">>,
       <<"save", "sql", "tables">>, <<"save", "sql", "metadata">>, <<"close", "sql", "">>,
       <<"Storage", "fs", "">>,
       <<"save", "fs", "text">>, <<"save", "fs", "links">>, <<"save", "fs", "images">>,
       <<"save", "fs", "tables">>, <<"save", "fs", "metadata">> >>
StatedFiles == <<"PDFLoader", "DOCXLoader", "PPTLoader">>
CallOf(l) == <<l.op, l.sink, l.kind>>
PlaceOf(l) ==
    IF l.op = "init" THEN 0 ELSE CHOOSE k \in DOMAIN StatedOrder : StatedOrder[k] = CallOf(l)
FileNo(l) == IF l = NoLoader THEN 0 ELSE CHOOSE i \in DOMAIN StatedFiles : StatedFiles[i] = l.cls

\* C29: every call main makes follows a call that returned, and is the next
\* of the stated order: the extractor of a file, StorageSQL, its five writes
\* text, links, images, tables, metadata, close, Storage and its five writes
\* in the same order; the files are the PDF, then the DOCX, then the PPT
\* file, and after a call that raised no call is made at all.
C29_ProcessingOrder ==
    [][/\ last.exc = "none"
       /\ CallOf(last') = StatedOrder[(PlaceOf(last) % Len(StatedOrder)) + 1]
       /\ loader'.cls \in {StatedFiles[i] : i \in DOMAIN StatedFiles}
       /\ FileNo(loader') = IF CallOf(last') = StatedOrder[1]
                            THEN FileNo(loader) + 1 ELSE FileNo(loader)]_vars

C29_Witness ==
    /\ ops = Len(MainScript)
    /\ last.exc = "none"
    /\ CallOf(last) = <<"save", "fs", "metadata">>
    /\ loader.cls = "PPTLoader"
    /\ \A tag \in {"pdf", "docx", "ppt"} :
          Path("text", <<tag, "_", "text", ".", "txt">>) \in DOMAIN fs.files
    /\ Len(db.rows["extracted_links"]) = 4

\* item idx of a save_images or save_tables call reaches its file
ItemPersists(kind, items, idx, faults) ==
    /\ idx \notin faults
    /\ kind = "images" => Decodes(prepare_image_data(items[idx]))

\* the file of item idx, and what is written to it
ItemFile(kind, x, items, idx) ==
    IF kind = "images" THEN ImageFile(x, idx, prepare_image_data(items[idx]))
    ELSE TableFile(x, idx)
ItemContent(kind, items, idx) ==
    IF kind = "images" THEN Encoded(prepare_image_data(items[idx]))
    ELSE Flatten(Map(CsvRow, items[idx]))

\* C30: the number in the name of an image or table file is the 1-based
\* position of the item in the extracted sequence: every item that is saved
\* is in the file numbered with its position, an item that is skipped leaves
\* its number unused, and no two items of one write have the same path.
C30_NumberIsPosition ==
    [][\A kind \in {"images", "tables"} :
          (/\ last'.op = "save" /\ last'.sink = "fs" /\ last'.kind = kind
           /\ Extract(kind, fsSink.extractor).exc = "none")
            => LET x == fsSink.extractor
                   items == Extract(kind, x).val.v
                   saved == {idx \in DOMAIN items : ItemPersists(kind, items, idx, last'.faults)}
               IN  /\ \A idx \in saved :
                         /\ ItemFile(kind, x, items, idx) \in DOMAIN fs'.files
                         /\ ItemFile(kind, x, items, idx).name[5] = NumStr(idx)
                         /\ fs'.files[ItemFile(kind, x, items, idx)]
                               = ItemContent(kind, items, idx)
                   /\ \A i, j \in DOMAIN items :
                         i /= j => ItemFile(kind, x, items, i) /= ItemFile(kind, x, items, j)
                   /\ Written \subseteq {ItemFile(kind, x, items, idx) : idx \in saved}]_vars

C30_Witness ==
    /\ last.op = "save" /\ last.sink = "fs" /\ last.kind = "images" /\ last.faults = {}
    /\ extract_images(fsSink.extractor).val.v = <<ImgBad, ImgPng, ImgJpeg>>
    /\ {q.name[5] : q \in {f \in DOMAIN fs.files : f.dir = "images"}} = {"2", "3"}

====
